---- MODULE Spec2Model ----
(***************************************************************************)
(* Temporal state storage engine of erigon: the Aggregator that turns the  *)
(* hot store into step files (build), compacts them (merge), prunes the    *)
(* hot store, and hands out snapshot-isolated views (AggregatorRoTx).      *)
(*                                                                         *)
(* Files are written <<startTxNum, endTxNum>>, a half-open txNum range.    *)
(***************************************************************************)
EXTENDS Integers, Sequences, FiniteSets, TLC

\* ------------------------------------------------------------------ bounds

\* aggregationStep: the number of txNums of one step (a constructor argument).
StepSize == 2
\* The writer stops after MaxTx txNums.
MaxTx == 7
\* Number of views a user may hold open at the same time.
MaxViews == 1

\* ------------------------------------------------------------ components

Accounts == "accounts"
Storage == "storage"
Code == "code"
Commitment == "commitment"
LogAddrIdx == "logaddrs"

\* a.d in enum order, then a.iis (one standalone inverted index stands for the four).
Order == <<Accounts, Storage, Code, Commitment, LogAddrIdx>>
NComps == Len(Order)
Comps == {Order[i] : i \in 1..NComps}
Domains == {Accounts, Storage, Code, Commitment}

MaxSteps == MaxTx \div StepSize
AllFiles == {<<a * StepSize, b * StepSize>> : a, b \in 0..MaxSteps} \cap
            {f \in (0..MaxTx) \X (0..MaxTx) : f[1] < f[2]}

Min2(a, b) == IF a <= b THEN a ELSE b
SetMin(S) == CHOOSE x \in S : \A y \in S : x <= y
SetMax(S) == CHOOSE x \in S : \A y \in S : y <= x

\* ------------------------------------------------------------------ state

VARIABLES
    currentTxNum,              \* hot store: txNums [0, currentTxNum) have been written
    hotFrom,                   \* hot store: per component, rows [hotFrom, currentTxNum) are present
    dirtyFiles,                \* per component, the dirty file set
    visibleFiles,              \* per component, the visible projection (_visibleFiles)
    refcount,                  \* per component and file, filesItem.refcount
    canDelete,                 \* per component, files with filesItem.canDelete set
    onDisk,                    \* per component, files whose path exists
    handleOpen,                \* per component, files whose decompressor handle is open
    visibleFilesMinimaxTxNum,  \* Aggregator.visibleFilesMinimaxTxNum
    dirtyFilesLock,            \* holder of Aggregator.dirtyFilesLock, or "free"
    visibleFilesLock,          \* write-holder of Aggregator.visibleFilesLock, or "free"
    buildingFiles,             \* Aggregator.buildingFiles
    mergingFiles,              \* Aggregator.mergingFiles
    restrictSubsetFileDeletions, \* Domain.restrictSubsetFileDeletions of Accounts, Storage, Commitment
    thr,                       \* the build goroutine and the merge goroutine
    roTx,                      \* the views held by users
    round,                     \* one buildFiles round: its collate-and-build tasks
    pass,                      \* one mergeFiles pass: its merge tasks and the barrier
    sweeps,                    \* the callers of the public entry points and their sweeps
    squeeze,                   \* one SqueezeCommitmentFiles call
    content,                   \* one merge of two adjacent files: what the files hold
    batch,                     \* one PruneSmallBatches or PruneSmallBatchesDb call
    call,                      \* the last call of an entry point that is looked at on its own
    history                    \* the history of the Commitment domain in the hot store

vars == <<currentTxNum, hotFrom, dirtyFiles, visibleFiles, refcount, canDelete, onDisk,
          handleOpen, visibleFilesMinimaxTxNum, dirtyFilesLock, visibleFilesLock,
          buildingFiles, mergingFiles, restrictSubsetFileDeletions, thr, roTx,
          round, pass, sweeps, squeeze, content, batch, call, history>>

fileVars == <<dirtyFiles, visibleFiles, refcount, canDelete, onDisk, handleOpen>>
hotVars == <<currentTxNum, hotFrom>>
lockVars == <<dirtyFilesLock, visibleFilesLock>>
flagVars == <<buildingFiles, mergingFiles, restrictSubsetFileDeletions>>

\* The state of the specifications that look closer at one operation each.
detailVars == <<round, pass, sweeps, squeeze, content, batch, call, history>>

NoFiles == [c \in Comps |-> {}]
NoView == [open |-> FALSE, files |-> NoFiles]
NoRange == <<0, 0>>

\* ---------------------------------------------------------------- helpers

firstTxNumOfStep(step, size) == step * size

\* Domain.maxStepInDB as lastIdInDB reads it: the step of the last written txNum.
lastIdInDB == IF currentTxNum = 0 THEN 0 ELSE (currentTxNum - 1) \div StepSize

\* filesItem.isSubsetOf: a proper sub-range.
isSubsetOf(i, j) == j[1] <= i[1] /\ i[2] <= j[2] /\ (j[1] # i[1] \/ i[2] # j[2])

\* filesItemLess: by endTxNum, and for equal ends the smaller file first.
filesItemLess(i, j) == IF i[2] = j[2] THEN i[1] > j[1] ELSE i[2] < j[2]

RECURSIVE SortFiles(_)
SortFiles(S) ==
    IF S = {} THEN <<>>
    ELSE LET m == CHOOSE x \in S : \A y \in S \ {x} : filesItemLess(x, y)
         IN <<m>> \o SortFiles(S \ {m})

RECURSIVE DropSubsets(_, _)
DropSubsets(stack, item) ==
    IF Len(stack) > 0 /\ isSubsetOf(stack[Len(stack)], item)
    THEN DropSubsets(SubSeq(stack, 1, Len(stack) - 1), item)
    ELSE stack

RECURSIVE WalkVisible(_, _)
WalkVisible(items, stack) ==
    IF items = <<>> THEN stack
    ELSE WalkVisible(Tail(items), Append(DropSubsets(stack, Head(items)), Head(items)))

SeqToSet(s) == {s[i] : i \in 1..Len(s)}

\* calcVisibleFiles: walk the dirty files in order, skip the ones marked for
\* deletion, and let a super-set file drop the sub-set files before it.
calcVisibleFiles(dirty, deleted) == SeqToSet(WalkVisible(SortFiles(dirty \ deleted), <<>>))

\* visibleFiles.EndTxNum(): the end of the last visible file, 0 when there is none.
EndTxNum(files) == IF files = {} THEN 0 ELSE SetMax({f[2] : f \in files})

\* ------------------------------------------------------------------ views

\* Domain.BeginFilesRo / InvertedIndex.BeginFilesRo: every pinned file's refcount + 1.
RefAfterPin(files) ==
    [c \in Comps |-> [f \in AllFiles |->
        IF f \in files[c] THEN refcount[c][f] + 1 ELSE refcount[c][f]]]

\* DomainRoTx.Close: every pinned file's refcount - 1 ...
RefAfterRelease(files) ==
    [c \in Comps |-> [f \in AllFiles |->
        IF f \in files[c] THEN refcount[c][f] - 1 ELSE refcount[c][f]]]

\* ... and the last reader of a file marked canDelete closes and removes it
\* (closeFilesAndRemove).
Gone(files) ==
    [c \in Comps |-> {f \in files[c] : RefAfterRelease(files)[c][f] = 0 /\ f \in canDelete[c]}]

\* Faulty variant of minimaxTxNumInDomainFiles: the biggest end instead of the smallest.
maximaxTxNumInDomainFiles(files) ==
    SetMax({EndTxNum(files[Accounts]), EndTxNum(files[Code]),
            EndTxNum(files[Storage]), EndTxNum(files[Commitment])})

\* AggregatorRoTx.minimaxTxNumInDomainFiles
minimaxTxNumInDomainFiles(files) ==
    Min2(Min2(EndTxNum(files[Accounts]), EndTxNum(files[Code])),
         Min2(EndTxNum(files[Storage]), EndTxNum(files[Commitment])))

\* Every txNum writes a key of its own, and a value is named by the txNum that
\* wrote it; a file holds the values of the txNums of its range.
NotFound == [found |-> FALSE, v |-> 0, step |-> 0]

\* The visible file that is authoritative for txNum, if there is one.
FileOf(files, txNum) == {f \in files : f[1] <= txNum /\ txNum < f[2]}

\* DomainRoTx.GetLatest for the key written at txNum w: the hot store first, then
\* the file of the view that covers the key.
GetLatestIn(files, from, current, w) ==
    IF from <= w /\ w < current
    THEN [found |-> TRUE, v |-> w, step |-> w \div StepSize]
    ELSE IF FileOf(files, w) # {}
         THEN [found |-> TRUE, v |-> w, step |-> w \div StepSize]
         ELSE NotFound

\* Faulty variant of BeginFilesRo: the view is handed out without pinning its files.
BeginFilesRoNoPin(view) ==
    /\ visibleFilesLock = "free"
    /\ view = [open |-> TRUE, files |-> visibleFiles]
    /\ UNCHANGED refcount

\* Aggregator.BeginFilesRo: under the read lock of visibleFilesLock, one handle per
\* component on its currently visible files.
BeginFilesRo(view) ==
    /\ visibleFilesLock = "free"
    /\ view = [open |-> TRUE, files |-> visibleFiles]
    /\ refcount' = RefAfterPin(visibleFiles)

\* AggregatorRoTx.Files: the files of every component of the view, by name.
Files(view) == UNION {{<<c, f>> : f \in view.files[c]} : c \in Comps}

\* Faulty variant of Closed: Close does not notice that it has been called.
ClosedNever(view) == FALSE

\* ac == nil || ac.a == nil: Close has been called on the handle, or it was
\* never opened.
Closed(view) == ~view.open

\* AggregatorRoTx.Close: releases every component handle; a second call returns at once.
RoTxClose(view) ==
    IF ~Closed(view)
    THEN /\ refcount' = RefAfterRelease(view.files)
         /\ onDisk' = [c \in Comps |-> onDisk[c] \ Gone(view.files)[c]]
         /\ handleOpen' = [c \in Comps |-> handleOpen[c] \ Gone(view.files)[c]]
    ELSE UNCHANGED <<refcount, onDisk, handleOpen>>

\* A user opens a view.
UserBegin(r) ==
    /\ ~roTx[r].open
    /\ \E view \in {[open |-> TRUE, files |-> visibleFiles]} :
          /\ BeginFilesRo(view)
          /\ roTx' = [roTx EXCEPT ![r] = view]
    /\ UNCHANGED <<hotVars, dirtyFiles, visibleFiles, canDelete, onDisk, handleOpen,
                   visibleFilesMinimaxTxNum, lockVars, flagVars, thr, detailVars>>

\* A user closes a view (any number of times).
UserClose(r) ==
    /\ RoTxClose(roTx[r])
    /\ roTx' = [roTx EXCEPT ![r] = NoView]
    /\ UNCHANGED <<hotVars, dirtyFiles, visibleFiles, canDelete,
                   visibleFilesMinimaxTxNum, lockVars, flagVars, thr, detailVars>>

\* ------------------------------------------------------------ hot store

\* The executor writes the next txNum into the hot store.
WriteTx ==
    /\ currentTxNum < MaxTx
    /\ currentTxNum' = currentTxNum + 1
    /\ UNCHANGED <<hotFrom, fileVars, visibleFilesMinimaxTxNum, lockVars, flagVars, thr, roTx,
                   detailVars>>

\* The key limits a caller hands to Prune; 0 stands for "no limit".
Limits == {0, 1}

\* Faulty variant of PruneTxTo: prune up to the newest txNum of the hot store.
PruneTxToCurrent == currentTxNum

\* AggregatorRoTx.Prune: the boundary it prunes up to.
PruneTxTo == visibleFilesMinimaxTxNum

\* AggregatorRoTx.CanPrune: d.CanPruneUntil(tx, untilTx) for some domain, rows
\* below untilTx, or ii.CanPrune(tx) for some index, rows its files of the view cover.
CanPrune(ac, untilTx) ==
    \/ \E c \in Domains : hotFrom[c] < Min2(untilTx, currentTxNum)
    \/ \E c \in Comps \ Domains : hotFrom[c] < Min2(EndTxNum(ac.files[c]), currentTxNum)

\* Domain.Prune / InvertedIndex.Prune: delete up to `limit` of the oldest rows below txTo.
PruneComponent(from, txTo, limit) ==
    LET upto == Min2(txTo, currentTxNum)
    IN  IF from >= upto THEN from
        ELSE IF limit = 0 THEN upto ELSE Min2(upto, from + limit)

\* AggregatorRoTx.Prune through an open view.
Prune(r, limit) ==
    /\ roTx[r].open
    /\ LET txFrom == 0
           txTo == PruneTxTo
       IN  /\ ~(txFrom = txTo \/ ~CanPrune(roTx[r], txTo))
           /\ hotFrom' = [c \in Comps |-> PruneComponent(hotFrom[c], txTo, limit)]
    /\ UNCHANGED <<currentTxNum, fileVars, visibleFilesMinimaxTxNum, lockVars, flagVars,
                   thr, roTx, detailVars>>

\* ------------------------------------------------------- merge schedule

\* Steps of the biggest (frozen) file; mergeLoopStep hands maxSpan = StepsInColdFile * step size.
StepsInColdFile == 64

RECURSIVE LowBit(_)
\* endStep & -endStep: the biggest power of two dividing endStep.
LowBit(n) == IF n % 2 = 1 THEN 1 ELSE 2 * LowBit(n \div 2)

RECURSIVE ScanMergeRange(_, _, _, _)
ScanMergeRange(items, maxEndTxNum, maxSpan, found) ==
    IF items = <<>> \/ Head(items)[2] > maxEndTxNum THEN found
    ELSE LET item == Head(items)
             span == Min2(LowBit(item[2] \div StepSize) * StepSize, maxSpan)
             fromTxNum == item[2] - span
             better == fromTxNum < item[1] /\ (found = NoRange \/ fromTxNum < found[1])
         IN  ScanMergeRange(Tail(items), maxEndTxNum, maxSpan,
                            IF better THEN <<fromTxNum, item[2]>> ELSE found)

\* DomainRoTx.findMergeRange / InvertedIndexRoTx.findMergeRange over a view's files:
\* the widest aligned span that ends at a file's end, ends at or below maxEndTxNum
\* and is not yet one file.
findMergeRangeOf(files, maxEndTxNum, maxSpan) ==
    ScanMergeRange(SortFiles(files), maxEndTxNum, maxSpan, NoRange)

\* AggregatorRoTx.findMergeRange
findMergeRange(view, maxEndTxNum, maxSpan) ==
    [c \in Comps |-> findMergeRangeOf(view.files[c], maxEndTxNum, maxSpan)]

\* RangesV3.any
RangesAny(r) == \E c \in Comps : r[c] # NoRange

NoRanges == [c \in Comps |-> NoRange]

\* ------------------------------------------------------- the goroutines

Idle == [pc |-> "idle", step |-> 0, i |-> 0, tmp |-> NoView, aggTx |-> NoView,
         r |-> NoRanges, more |-> FALSE, err |-> FALSE]

\* Faulty variant of FirstStepToBuild: the step after the one the files end at.
FirstStepToBuildSkip == (visibleFilesMinimaxTxNum \div StepSize) + 1

\* step := a.visibleFilesMinimaxTxNum.Load() / a.StepSize()
FirstStepToBuild == visibleFilesMinimaxTxNum \div StepSize

\* Faulty variant of NextStep: the loop leaves one step out.
NextStepSkip(step) == step + 2

\* for ; step < lastIdInDB(...); step++
NextStep(step) == step + 1

\* Aggregator.BuildFilesInBackground, up to the spawn of the build goroutine.
BuildFilesInBackground(txNum) ==
    /\ ~((txNum + 1) <= visibleFilesMinimaxTxNum + StepSize)
    /\ buildingFiles = FALSE
    /\ buildingFiles' = TRUE
    /\ thr' = [thr EXCEPT !["build"] =
                  [Idle EXCEPT !.pc = "checkData",
                               !.step = FirstStepToBuild]]
    /\ UNCHANGED <<hotVars, fileVars, visibleFilesMinimaxTxNum, lockVars, mergingFiles,
                   restrictSubsetFileDeletions, roTx, detailVars>>

\* The build goroutine returns: defer a.buildingFiles.Store(false).
BuildReturn ==
    /\ buildingFiles' = FALSE
    /\ thr' = [thr EXCEPT !["build"] = Idle]

\* hasData := lastInDB > step
BuildCheckData ==
    /\ thr["build"].pc = "checkData"
    /\ IF lastIdInDB > thr["build"].step
       THEN /\ thr' = [thr EXCEPT !["build"].pc = "loop"]
            /\ UNCHANGED buildingFiles
       ELSE BuildReturn
    /\ UNCHANGED <<hotVars, fileVars, visibleFilesMinimaxTxNum, lockVars, mergingFiles,
                   restrictSubsetFileDeletions, roTx, detailVars>>

\* Faulty variant of StepFile: txFrom is taken one step too early.
StepFileOverlap(step) ==
    <<firstTxNumOfStep(IF step = 0 THEN 0 ELSE step - 1, StepSize),
      firstTxNumOfStep(step + 1, StepSize)>>

\* The file a build round of `step` produces for every component.
StepFile(step) == <<firstTxNumOfStep(step, StepSize), firstTxNumOfStep(step + 1, StepSize)>>

\* for ; step < lastIdInDB(...); step++ { buildFiles(step) }: collate and build every
\* component; the files are on disk and open before they are integrated.
BuildFilesOk ==
    /\ thr["build"].pc = "loop"
    /\ thr["build"].step < lastIdInDB
    /\ onDisk' = [c \in Comps |-> onDisk[c] \cup {StepFile(thr["build"].step)}]
    /\ handleOpen' = [c \in Comps |-> handleOpen[c] \cup {StepFile(thr["build"].step)}]
    /\ thr' = [thr EXCEPT !["build"].pc = "integrate", !["build"].i = 1]
    /\ UNCHANGED <<hotVars, dirtyFiles, visibleFiles, refcount, canDelete,
                   visibleFilesMinimaxTxNum, lockVars, flagVars, roTx, detailVars>>

\* buildFiles fails with a build error: the loop breaks, nothing is integrated.
BuildFilesErr ==
    /\ thr["build"].pc = "loop"
    /\ thr["build"].step < lastIdInDB
    /\ thr' = [thr EXCEPT !["build"].pc = "afterLoop"]
    /\ UNCHANGED <<hotVars, fileVars, visibleFilesMinimaxTxNum, lockVars, flagVars, roTx,
                   detailVars>>

\* buildFiles is cancelled: the goroutine returns at once.
BuildFilesCancelled ==
    /\ thr["build"].pc = "loop"
    /\ thr["build"].step < lastIdInDB
    /\ BuildReturn
    /\ UNCHANGED <<hotVars, fileVars, visibleFilesMinimaxTxNum, lockVars, mergingFiles,
                   restrictSubsetFileDeletions, roTx, detailVars>>

\* The loop ends: every fully written step has its files.
BuildLoopEnd ==
    /\ thr["build"].pc = "loop"
    /\ ~(thr["build"].step < lastIdInDB)
    /\ thr' = [thr EXCEPT !["build"].pc = "afterLoop"]
    /\ UNCHANGED <<hotVars, fileVars, visibleFilesMinimaxTxNum, lockVars, flagVars, roTx,
                   detailVars>>

\* After the loop: start the merge goroutine unless one runs, then return.
BuildSpawnMerge ==
    /\ thr["build"].pc = "afterLoop"
    /\ buildingFiles' = FALSE
    /\ IF mergingFiles = FALSE
       THEN /\ mergingFiles' = TRUE
            /\ thr' = [thr EXCEPT !["build"] = Idle,
                                  !["merge"] = [Idle EXCEPT !.pc = "begin"]]
       ELSE /\ UNCHANGED mergingFiles
            /\ thr' = [thr EXCEPT !["build"] = Idle]
    /\ UNCHANGED <<hotVars, fileVars, visibleFilesMinimaxTxNum, lockVars,
                   restrictSubsetFileDeletions, roTx, detailVars>>

\* The lock a loop over the components takes with its first component and
\* releases with its last.
LockedLoop(lock, t) ==
    /\ IF thr[t].i = 1 THEN lock = "free" ELSE lock = t
    /\ lock' = IF thr[t].i = NComps THEN "free" ELSE t

\* Domain.integrateDirtyFiles / InvertedIndex.integrateDirtyFiles
IntegrateDirty(dirty, file) == dirty \cup {file}

\* Aggregator.integrateDirtyFiles, one component per step, under dirtyFilesLock.
IntegrateDirtyFiles ==
    /\ thr["build"].pc = "integrate"
    /\ LockedLoop(dirtyFilesLock, "build")
    /\ LET c == Order[thr["build"].i]
           f == StepFile(thr["build"].step)
       IN  /\ dirtyFiles' = [dirtyFiles EXCEPT ![c] = IntegrateDirty(@, f)]
           /\ canDelete' = [canDelete EXCEPT ![c] = @ \ {f}]
    /\ thr' = [thr EXCEPT !["build"].pc = IF thr["build"].i = NComps THEN "recalc" ELSE "integrate",
                          !["build"].i = IF thr["build"].i = NComps THEN 1 ELSE @ + 1]
    /\ UNCHANGED <<hotVars, visibleFiles, refcount, onDisk, handleOpen,
                   visibleFilesMinimaxTxNum, visibleFilesLock, flagVars, roTx, detailVars>>

\* Aggregator.recalcVisibleFiles, one component per step, under visibleFilesLock.
RecalcVisibleFiles(t) ==
    /\ thr[t].pc = "recalc"
    /\ LockedLoop(visibleFilesLock, t)
    /\ LET c == Order[thr[t].i]
       IN  visibleFiles' = [visibleFiles EXCEPT ![c] = calcVisibleFiles(dirtyFiles[c], canDelete[c])]
    /\ thr' = [thr EXCEPT ![t].pc = IF thr[t].i = NComps THEN "minimaxBegin" ELSE "recalc",
                          ![t].i = IF thr[t].i = NComps THEN 0 ELSE @ + 1]
    /\ UNCHANGED <<hotVars, dirtyFiles, refcount, canDelete, onDisk, handleOpen,
                   visibleFilesMinimaxTxNum, dirtyFilesLock, flagVars, roTx, detailVars>>

\* Aggregator.recalcVisibleFilesMinimaxTxNum: aggTx := a.BeginFilesRo()
MinimaxBegin(t) ==
    /\ thr[t].pc = "minimaxBegin"
    /\ \E view \in {[open |-> TRUE, files |-> visibleFiles]} :
          /\ BeginFilesRo(view)
          /\ thr' = [thr EXCEPT ![t].pc = "minimaxStore", ![t].tmp = view]
    /\ UNCHANGED <<hotVars, dirtyFiles, visibleFiles, canDelete, onDisk, handleOpen,
                   visibleFilesMinimaxTxNum, lockVars, flagVars, roTx, detailVars>>

\* a.visibleFilesMinimaxTxNum.Store(aggTx.minimaxTxNumInDomainFiles())
MinimaxStore(t) ==
    /\ thr[t].pc = "minimaxStore"
    /\ visibleFilesMinimaxTxNum' = minimaxTxNumInDomainFiles(thr[t].tmp.files)
    /\ thr' = [thr EXCEPT ![t].pc = "minimaxClose"]
    /\ UNCHANGED <<hotVars, fileVars, lockVars, flagVars, roTx, detailVars>>

\* defer aggTx.Close(); then the caller goes on: the build loop with its next step,
\* the merge pass with cleanAfterMerge.
MinimaxClose(t) ==
    /\ thr[t].pc = "minimaxClose"
    /\ RoTxClose(thr[t].tmp)
    /\ thr' = [thr EXCEPT ![t].tmp = NoView,
                          ![t].pc = IF t = "build" THEN "loop" ELSE "cleanBegin",
                          ![t].step = IF t = "build" THEN NextStep(@) ELSE @]
    /\ UNCHANGED <<hotVars, dirtyFiles, visibleFiles, canDelete,
                   visibleFilesMinimaxTxNum, lockVars, flagVars, roTx, detailVars>>

\* ------------------------------------------------------ the merge goroutine

\* mergeLoopStep: aggTx := a.BeginFilesRo()
MergeBegin ==
    /\ thr["merge"].pc = "begin"
    /\ \E view \in {[open |-> TRUE, files |-> visibleFiles]} :
          /\ BeginFilesRo(view)
          /\ thr' = [thr EXCEPT !["merge"].pc = "find", !["merge"].aggTx = view]
    /\ UNCHANGED <<hotVars, dirtyFiles, visibleFiles, canDelete, onDisk, handleOpen,
                   visibleFilesMinimaxTxNum, lockVars, flagVars, roTx, detailVars>>

\* r := aggTx.findMergeRange(a.visibleFilesMinimaxTxNum.Load(), maxSpan); if !r.any() return
MergeFind ==
    /\ thr["merge"].pc = "find"
    /\ LET r == findMergeRange(thr["merge"].aggTx, visibleFilesMinimaxTxNum,
                               StepsInColdFile * StepSize)
       IN  thr' = [thr EXCEPT !["merge"].r = r,
                              !["merge"].more = FALSE,
                              !["merge"].pc = IF RangesAny(r) THEN "merge" ELSE "closeAgg"]
    /\ UNCHANGED <<hotVars, fileVars, visibleFilesMinimaxTxNum, lockVars, flagVars, roTx,
                   detailVars>>

\* Faulty variant of Merged: a pass that merged a range hands back no file.
MergedNothing(r, c) == {}

\* The file each component's merge produced (MergedFilesV3), where it has a range.
Merged(r, c) == IF r[c] = NoRange THEN {} ELSE {r[c]}

\* aggTx.mergeFiles succeeds: every merged file is on disk and open; the Commitment
\* task has switched restrictSubsetFileDeletions on and, done, off again.
MergeFilesOk ==
    /\ thr["merge"].pc = "merge"
    /\ onDisk' = [c \in Comps |-> onDisk[c] \cup Merged(thr["merge"].r, c)]
    /\ handleOpen' = [c \in Comps |-> handleOpen[c] \cup Merged(thr["merge"].r, c)]
    /\ restrictSubsetFileDeletions' =
          IF thr["merge"].r[Commitment] # NoRange THEN FALSE ELSE restrictSubsetFileDeletions
    /\ thr' = [thr EXCEPT !["merge"].pc = "integrate", !["merge"].i = 1, !["merge"].more = TRUE]
    /\ UNCHANGED <<hotVars, dirtyFiles, visibleFiles, refcount, canDelete,
                   visibleFilesMinimaxTxNum, lockVars, buildingFiles, mergingFiles, roTx,
                   detailVars>>

\* aggTx.mergeFiles fails or is cancelled: the partial outputs are closed, nothing is
\* integrated, MergeLoop returns; the Commitment task may have run, or not.
MergeFilesErr ==
    /\ thr["merge"].pc = "merge"
    /\ \E b \in (IF thr["merge"].r[Commitment] # NoRange THEN {TRUE, FALSE} ELSE {})
                \cup {restrictSubsetFileDeletions} :
          restrictSubsetFileDeletions' = b
    /\ thr' = [thr EXCEPT !["merge"].pc = "closeAgg", !["merge"].more = FALSE,
                          !["merge"].err = TRUE]
    /\ UNCHANGED <<hotVars, fileVars, visibleFilesMinimaxTxNum, lockVars,
                   buildingFiles, mergingFiles, roTx, detailVars>>

\* Faulty variant of IntegrateMerged: the merged file does not enter the dirty set.
IntegrateMergedDropped(dirty, merged) == dirty

\* Domain.integrateMergedDirtyFiles / InvertedIndex.integrateMergedDirtyFiles
IntegrateMerged(dirty, merged) == dirty \cup merged

\* Aggregator.integrateMergedDirtyFiles, one component per step, under dirtyFilesLock.
IntegrateMergedDirtyFiles ==
    /\ thr["merge"].pc = "integrate"
    /\ LockedLoop(dirtyFilesLock, "merge")
    /\ LET c == Order[thr["merge"].i]
       IN  /\ dirtyFiles' = [dirtyFiles EXCEPT ![c] = IntegrateMerged(@, Merged(thr["merge"].r, c))]
           /\ canDelete' = [canDelete EXCEPT ![c] = @ \ Merged(thr["merge"].r, c)]
    /\ thr' = [thr EXCEPT !["merge"].pc = IF thr["merge"].i = NComps THEN "recalc" ELSE "integrate",
                          !["merge"].i = IF thr["merge"].i = NComps THEN 1 ELSE @ + 1]
    /\ UNCHANGED <<hotVars, visibleFiles, refcount, onDisk, handleOpen,
                   visibleFilesMinimaxTxNum, visibleFilesLock, flagVars, roTx, detailVars>>

\* Aggregator.cleanAfterMerge: at := a.BeginFilesRo()
CleanBegin ==
    /\ thr["merge"].pc = "cleanBegin"
    /\ \E view \in {[open |-> TRUE, files |-> visibleFiles]} :
          /\ BeginFilesRo(view)
          /\ thr' = [thr EXCEPT !["merge"].pc = "clean", !["merge"].tmp = view, !["merge"].i = 1]
    /\ UNCHANGED <<hotVars, dirtyFiles, visibleFiles, canDelete, onDisk, handleOpen,
                   visibleFilesMinimaxTxNum, lockVars, flagVars, roTx, detailVars>>

\* DomainRoTx.garbage: the dirty files a merged file has made superfluous.
Garbage(c, merged) ==
    IF merged = NoRange \/ (c \in {Accounts, Storage, Commitment} /\ restrictSubsetFileDeletions)
    THEN {}
    ELSE {f \in dirtyFiles[c] : isSubsetOf(f, merged)}

\* The garbage files nobody reads are closed and removed at once; the others when
\* their last reader closes.
RemovedNow(c, garbage) == {f \in garbage : refcount[c][f] = 0}

\* Aggregator.cleanAfterMerge, one component per step, under dirtyFilesLock.
CleanAfterMerge ==
    /\ thr["merge"].pc = "clean"
    /\ LockedLoop(dirtyFilesLock, "merge")
    /\ LET c == Order[thr["merge"].i]
           garbage == Garbage(c, thr["merge"].r[c])
       IN  /\ dirtyFiles' = [dirtyFiles EXCEPT ![c] = @ \ garbage]
           /\ canDelete' = [canDelete EXCEPT ![c] = @ \cup garbage]
           /\ onDisk' = [onDisk EXCEPT ![c] = @ \ RemovedNow(c, garbage)]
           /\ handleOpen' = [handleOpen EXCEPT ![c] = @ \ RemovedNow(c, garbage)]
    /\ thr' = [thr EXCEPT !["merge"].pc = IF thr["merge"].i = NComps THEN "cleanClose" ELSE "clean",
                          !["merge"].i = IF thr["merge"].i = NComps THEN 0 ELSE @ + 1]
    /\ UNCHANGED <<hotVars, visibleFiles, refcount, visibleFilesMinimaxTxNum,
                   visibleFilesLock, flagVars, roTx, detailVars>>

\* cleanAfterMerge: defer at.Close()
CleanClose ==
    /\ thr["merge"].pc = "cleanClose"
    /\ RoTxClose(thr["merge"].tmp)
    /\ thr' = [thr EXCEPT !["merge"].pc = "closeAgg", !["merge"].tmp = NoView]
    /\ UNCHANGED <<hotVars, dirtyFiles, visibleFiles, canDelete,
                   visibleFilesMinimaxTxNum, lockVars, flagVars, roTx, detailVars>>

\* mergeLoopStep: defer aggTx.Close(); MergeLoop runs the next pass if this one merged
\* something, and else the merge goroutine returns: defer a.mergingFiles.Store(false).
MergeCloseAggTx ==
    /\ thr["merge"].pc = "closeAgg"
    /\ RoTxClose(thr["merge"].aggTx)
    /\ IF thr["merge"].more
       THEN /\ thr' = [thr EXCEPT !["merge"] = [Idle EXCEPT !.pc = "begin"]]
            /\ UNCHANGED mergingFiles
       ELSE /\ thr' = [thr EXCEPT !["merge"] = Idle]
            /\ mergingFiles' = FALSE
    /\ UNCHANGED <<hotVars, dirtyFiles, visibleFiles, canDelete, visibleFilesMinimaxTxNum,
                   lockVars, buildingFiles, restrictSubsetFileDeletions, roTx, detailVars>>

\* --------------------------------------------------------- specification

Views == 1..MaxViews

NoRound == [pc |-> "none"]
NoPass == [pc |-> "none"]
NoSweeps == [pc |-> "none"]
NoSqueeze == [pc |-> "none"]
NoContent == [pc |-> "none"]
NoBatch == [pc |-> "none"]
NoCall == [op |-> "none"]
NoHistory == [pc |-> "none"]

\* NewAggregator on an empty folder and an empty hot store.
Init ==
    /\ currentTxNum = 0
    /\ hotFrom = [c \in Comps |-> 0]
    /\ dirtyFiles = NoFiles
    /\ visibleFiles = NoFiles
    /\ refcount = [c \in Comps |-> [f \in AllFiles |-> 0]]
    /\ canDelete = NoFiles
    /\ onDisk = NoFiles
    /\ handleOpen = NoFiles
    /\ visibleFilesMinimaxTxNum = 0
    /\ dirtyFilesLock = "free"
    /\ visibleFilesLock = "free"
    /\ buildingFiles = FALSE
    /\ mergingFiles = FALSE
    /\ restrictSubsetFileDeletions = TRUE
    /\ thr = [t \in {"build", "merge"} |-> Idle]
    /\ roTx = [r \in Views |-> NoView]
    /\ round = NoRound
    /\ pass = NoPass
    /\ sweeps = NoSweeps
    /\ squeeze = NoSqueeze
    /\ content = NoContent
    /\ batch = NoBatch
    /\ call = NoCall
    /\ history = NoHistory

Next ==
    \/ WriteTx
    \/ \E r \in Views : UserBegin(r)
    \/ \E r \in Views : UserClose(r)
    \/ \E r \in Views, limit \in Limits : Prune(r, limit)
    \/ \E txNum \in 0..MaxTx : BuildFilesInBackground(txNum)
    \/ BuildCheckData
    \/ BuildFilesOk
    \/ BuildFilesErr
    \/ BuildFilesCancelled
    \/ BuildLoopEnd
    \/ BuildSpawnMerge
    \/ IntegrateDirtyFiles
    \/ \E t \in {"build", "merge"} : RecalcVisibleFiles(t)
    \/ \E t \in {"build", "merge"} : MinimaxBegin(t)
    \/ \E t \in {"build", "merge"} : MinimaxStore(t)
    \/ \E t \in {"build", "merge"} : MinimaxClose(t)
    \/ MergeBegin
    \/ MergeFind
    \/ MergeFilesOk
    \/ MergeFilesErr
    \/ IntegrateMergedDirtyFiles
    \/ CleanBegin
    \/ CleanAfterMerge
    \/ CleanClose
    \/ MergeCloseAggTx

Spec == Init /\ [][Next]_vars

\* The steps of the build goroutine up to the end of its loop.
BuildGoroutine ==
    \/ BuildCheckData
    \/ BuildFilesOk
    \/ BuildFilesErr
    \/ BuildFilesCancelled
    \/ BuildLoopEnd
    \/ IntegrateDirtyFiles
    \/ RecalcVisibleFiles("build")
    \/ MinimaxBegin("build")
    \/ MinimaxStore("build")
    \/ MinimaxClose("build")

\* The steps of the merge goroutine: MergeLoop.
MergeGoroutine ==
    \/ MergeBegin
    \/ MergeFind
    \/ MergeFilesOk
    \/ MergeFilesErr
    \/ IntegrateMergedDirtyFiles
    \/ RecalcVisibleFiles("merge")
    \/ MinimaxBegin("merge")
    \/ MinimaxStore("merge")
    \/ MinimaxClose("merge")
    \/ CleanBegin
    \/ CleanAfterMerge
    \/ CleanClose
    \/ MergeCloseAggTx

\* ------------------------------------------------- a build sweep to its end

\* if dbg.NoMerge() { close(fin); return }: with merges switched off the build
\* goroutine returns after its loop.
BuildNoMerge ==
    /\ thr["build"].pc = "afterLoop"
    /\ BuildReturn
    /\ UNCHANGED <<hotVars, fileVars, visibleFilesMinimaxTxNum, lockVars, mergingFiles,
                   restrictSubsetFileDeletions, roTx, detailVars>>

\* An Aggregator that runs with merges switched off: writers, the callers of
\* BuildFilesInBackground and the build goroutine.
NextDrain ==
    \/ WriteTx
    \/ \E txNum \in 0..MaxTx : BuildFilesInBackground(txNum)
    \/ BuildCheckData
    \/ BuildFilesOk
    \/ BuildFilesErr
    \/ BuildFilesCancelled
    \/ BuildLoopEnd
    \/ BuildNoMerge
    \/ IntegrateDirtyFiles
    \/ RecalcVisibleFiles("build")
    \/ MinimaxBegin("build")
    \/ MinimaxStore("build")
    \/ MinimaxClose("build")

\* The Go scheduler runs a goroutine that can take a step: the build goroutine
\* does not stand still for ever while it could go on.
SpecDrain == Init /\ [][NextDrain]_vars /\ WF_vars(BuildGoroutine \/ BuildNoMerge)

\* ------------------------------------------------- one buildFiles round
\* Aggregator.buildFiles(step) with its collate-and-build tasks, one per
\* component, run by an errgroup of collateAndBuildWorkers workers.

MaxWorkers == 2

\* The steps the hot store holds completely when MaxTx txNums are written.
BuildableSteps == {st \in 0..(MaxSteps - 1) : firstTxNumOfStep(st + 1, StepSize) + 1 <= MaxTx}

NewRound(step, workers) ==
    [pc |-> "run", step |-> step, workers |-> workers,
     task |-> [c \in Comps |-> "new"], static |-> {}, err |-> FALSE]

Active(task) == {c \in Comps : task[c] \in {"collating", "building"}}

Pos(c) == CHOOSE i \in 1..NComps : Order[i] = c

\* Faulty variant of CleanupOnError: the files of the indices are left behind.
CleanupOnErrorDomainsOnly(files, static, file) ==
    [c \in Comps |-> IF c \in static /\ c \in Domains THEN files[c] \ {file} ELSE files[c]]

\* AggV3StaticFiles.CleanupOnError: closes and removes every file the round stored.
CleanupOnError(files, static, file) ==
    [c \in Comps |-> IF c \in static THEN files[c] \ {file} ELSE files[c]]

\* g.Go: the next component's task starts once a worker is free.
RoundGo(c) ==
    /\ round.pc = "run"
    /\ round.task[c] = "new"
    /\ \A d \in Comps : Pos(d) < Pos(c) => round.task[d] # "new"
    /\ Cardinality(Active(round.task)) < round.workers
    /\ round' = [round EXCEPT !.task[c] = "collating"]
    /\ UNCHANGED <<hotVars, fileVars, visibleFilesMinimaxTxNum, lockVars, flagVars, thr,
                   roTx, pass, sweeps, squeeze, content, batch, call, history>>

\* d.collate / ii.collate succeeds.
RoundCollate(c) ==
    /\ round.pc = "run"
    /\ round.task[c] = "collating"
    /\ round' = [round EXCEPT !.task[c] = "building"]
    /\ UNCHANGED <<hotVars, fileVars, visibleFilesMinimaxTxNum, lockVars, flagVars, thr,
                   roTx, pass, sweeps, squeeze, content, batch, call, history>>

\* d.collate / ii.collate fails: the task returns the error.
RoundCollateErr(c) ==
    /\ round.pc = "run"
    /\ round.task[c] = "collating"
    /\ round' = [round EXCEPT !.task[c] = "failed", !.err = TRUE]
    /\ UNCHANGED <<hotVars, fileVars, visibleFilesMinimaxTxNum, lockVars, flagVars, thr,
                   roTx, pass, sweeps, squeeze, content, batch, call, history>>

\* d.buildFiles / ii.buildFiles succeeds: the file is written and opened, and the
\* task stores it in `static`.
RoundBuild(c) ==
    /\ round.pc = "run"
    /\ round.task[c] = "building"
    /\ onDisk' = [onDisk EXCEPT ![c] = @ \cup {StepFile(round.step)}]
    /\ handleOpen' = [handleOpen EXCEPT ![c] = @ \cup {StepFile(round.step)}]
    /\ round' = [round EXCEPT !.task[c] = "stored", !.static = @ \cup {c}]
    /\ UNCHANGED <<hotVars, dirtyFiles, visibleFiles, refcount, canDelete,
                   visibleFilesMinimaxTxNum, lockVars, flagVars, thr, roTx, pass, sweeps,
                   squeeze, content, batch, call, history>>

\* d.buildFiles / ii.buildFiles fails: sf.CleanupOnError() removes what the task
\* wrote, and the task returns the error.
RoundBuildErr(c) ==
    /\ round.pc = "run"
    /\ round.task[c] = "building"
    /\ round' = [round EXCEPT !.task[c] = "failed", !.err = TRUE]
    /\ UNCHANGED <<hotVars, fileVars, visibleFilesMinimaxTxNum, lockVars, flagVars, thr,
                   roTx, pass, sweeps, squeeze, content, batch, call, history>>

RoundTasksDone == \A c \in Comps : round.task[c] \in {"stored", "failed"}

\* g.Wait() returns an error: static.CleanupOnError(), and buildFiles fails.
RoundWaitErr ==
    /\ round.pc = "run"
    /\ RoundTasksDone
    /\ round.err
    /\ onDisk' = CleanupOnError(onDisk, round.static, StepFile(round.step))
    /\ handleOpen' = CleanupOnError(handleOpen, round.static, StepFile(round.step))
    /\ round' = [round EXCEPT !.pc = "failed"]
    /\ UNCHANGED <<hotVars, dirtyFiles, visibleFiles, refcount, canDelete,
                   visibleFilesMinimaxTxNum, lockVars, flagVars, thr, roTx, pass, sweeps,
                   squeeze, content, batch, call, history>>

\* g.Wait() returns nil: integrateDirtyFiles(static, txFrom, txTo) with its
\* recalculation of the visible files; nothing else runs in this closer look.
RoundWaitOk ==
    /\ round.pc = "run"
    /\ RoundTasksDone
    /\ ~round.err
    /\ dirtyFiles' = [c \in Comps |-> IntegrateDirty(dirtyFiles[c], StepFile(round.step))]
    /\ visibleFiles' = [c \in Comps |-> calcVisibleFiles(dirtyFiles'[c], canDelete[c])]
    /\ visibleFilesMinimaxTxNum' = minimaxTxNumInDomainFiles(visibleFiles')
    /\ round' = [round EXCEPT !.pc = "ok"]
    /\ UNCHANGED <<hotVars, refcount, canDelete, onDisk, handleOpen, lockVars, flagVars,
                   thr, roTx, pass, sweeps, squeeze, content, batch, call, history>>

\* The loop of BuildFilesInBackground goes on to the next step; after a failure a
\* later call starts again at the step that failed.
RoundAgain ==
    /\ \/ round.pc = "ok" /\ round.step + 1 \in BuildableSteps
          /\ round' = NewRound(round.step + 1, round.workers)
       \/ round.pc = "failed"
          /\ round' = NewRound(round.step, round.workers)
    /\ UNCHANGED <<hotVars, fileVars, visibleFilesMinimaxTxNum, lockVars, flagVars, thr,
                   roTx, pass, sweeps, squeeze, content, batch, call, history>>

\* An empty folder, a hot store of MaxTx txNums, and the first round.
InitBuild ==
    /\ currentTxNum = MaxTx
    /\ hotFrom = [c \in Comps |-> 0]
    /\ dirtyFiles = NoFiles
    /\ visibleFiles = NoFiles
    /\ refcount = [c \in Comps |-> [f \in AllFiles |-> 0]]
    /\ canDelete = NoFiles
    /\ onDisk = NoFiles
    /\ handleOpen = NoFiles
    /\ visibleFilesMinimaxTxNum = 0
    /\ dirtyFilesLock = "free"
    /\ visibleFilesLock = "free"
    /\ buildingFiles = TRUE
    /\ mergingFiles = FALSE
    /\ restrictSubsetFileDeletions = TRUE
    /\ thr = [t \in {"build", "merge"} |-> Idle]
    /\ roTx = [r \in Views |-> NoView]
    /\ \E workers \in 1..MaxWorkers : round = NewRound(0, workers)
    /\ pass = NoPass
    /\ sweeps = NoSweeps
    /\ squeeze = NoSqueeze
    /\ content = NoContent
    /\ batch = NoBatch
    /\ call = NoCall
    /\ history = NoHistory

NextBuild ==
    \/ \E c \in Comps : RoundGo(c)
    \/ \E c \in Comps : RoundCollate(c)
    \/ \E c \in Comps : RoundCollateErr(c)
    \/ \E c \in Comps : RoundBuild(c)
    \/ \E c \in Comps : RoundBuildErr(c)
    \/ RoundWaitErr
    \/ RoundWaitOk
    \/ RoundAgain

SpecBuild == InitBuild /\ [][NextBuild]_vars

\* ------------------------------------------------- one mergeFiles pass
\* AggregatorRoTx.mergeFiles with its merge tasks, one per component that has a
\* range, run by an errgroup of mergeWorkers workers, then the integration of
\* the merged files and the clean-up of the files they replace.

MaxMergeWorkers == 2

AccStorage == {Accounts, Storage}

\* The files of steps 0 and 1, and the file the two merge into.
TwoSteps == {StepFile(0), StepFile(1)}
TwoStepsMerged == <<firstTxNumOfStep(0, StepSize), firstTxNumOfStep(2, StepSize)>>

\* staticFilesInRange: the input files of a component's merge.
Inputs(c, r) == {f \in dirtyFiles[c] : r[c] # NoRange /\ isSubsetOf(f, r[c])}

PassActive(task) == {c \in Comps : task[c] \in {"start", "wait", "merging"}}

\* Faulty variant of PassTasksDone: g.Wait() returns with the first task that ends.
PassTasksDoneAny == \E c \in Comps : pass.task[c] \in {"done", "failed"}

\* g.Wait() returns: every task that was started has ended.
PassTasksDone == \A c \in Comps : pass.task[c] \in {"skip", "done", "failed"}

\* Faulty variant of WaitReturns: the Commitment task does not wait.
WaitReturnsAtOnce(wg) == TRUE

\* accStorageMerged.Wait() returns when the counter is zero.
WaitReturns(wg) == wg = 0

\* Faulty variant of ValTransformFiles: the merged Storage file is not handed over.
ValTransformAccountsOnly(mf) == [acc |-> mf[Accounts], sto |-> NoRange]

\* The merged files commitmentValTransformDomain is built with:
\* mf.d[kv.AccountsDomain], mf.d[kv.StorageDomain].
ValTransformFiles(mf) == [acc |-> mf[Accounts], sto |-> mf[Storage]]

\* commitmentValTransformDomain: a Commitment file refers into the Accounts and
\* Storage files of its own range; the transformer rewrites a reference to the
\* merged file handed over, and without a merged file leaves it as it is.
commitmentValTransformDomain(original, merged) ==
    IF merged = NoRange THEN original ELSE {merged}

\* Faulty variant of AccStorageMergedDone: a task that failed does not call Done.
AccStorageMergedDoneOnSuccess(wg, c, failed) ==
    IF c \in AccStorage /\ ~failed THEN wg - 1 ELSE wg

\* accStorageMerged.Done() of the Accounts and the Storage task, called after
\* the task's mergeFiles has returned, with an error or without.
AccStorageMergedDone(wg, c, failed) == IF c \in AccStorage THEN wg - 1 ELSE wg

\* The loop of mergeFiles reaches component c: accStorageMerged.Add(1) for
\* Accounts and Storage, and g.Go starts the task once a worker is free.
PassGo(c) ==
    /\ pass.pc = "run"
    /\ pass.task[c] = "new"
    /\ \A d \in Comps : Pos(d) < Pos(c) => pass.task[d] # "new"
    /\ Cardinality(PassActive(pass.task)) < pass.workers
    /\ pass' = [pass EXCEPT !.task[c] = IF c = Commitment THEN "start" ELSE "merging",
                            !.wg = IF c \in AccStorage THEN @ + 1 ELSE @]
    /\ UNCHANGED <<hotVars, fileVars, visibleFilesMinimaxTxNum, lockVars, flagVars, thr,
                   roTx, round, sweeps, squeeze, content, batch, call, history>>

\* The Commitment task: ac.RestrictSubsetFileDeletions(true), then it calls Wait.
PassCommitmentStart ==
    /\ pass.pc = "run"
    /\ pass.task[Commitment] = "start"
    /\ restrictSubsetFileDeletions' = TRUE
    /\ pass' = [pass EXCEPT !.task[Commitment] = "wait", !.blocked = pass.wg > 0]
    /\ UNCHANGED <<hotVars, fileVars, visibleFilesMinimaxTxNum, lockVars, buildingFiles,
                   mergingFiles, thr, roTx, round, sweeps, squeeze, content, batch, call, history>>

\* The Commitment task: Wait returns and the value transformer is built.
PassCommitmentWait ==
    /\ pass.pc = "run"
    /\ pass.task[Commitment] = "wait"
    /\ WaitReturns(pass.wg)
    /\ pass' = [pass EXCEPT !.task[Commitment] = "merging", !.vt = ValTransformFiles(pass.mf)]
    /\ UNCHANGED <<hotVars, fileVars, visibleFilesMinimaxTxNum, lockVars, flagVars, thr,
                   roTx, round, sweeps, squeeze, content, batch, call, history>>

\* A task's mergeFiles succeeds: the merged file is written and opened and stored
\* in mf; Accounts and Storage call Done, Commitment lifts the restriction.
PassMerge(c) ==
    /\ pass.pc = "run"
    /\ pass.task[c] = "merging"
    /\ onDisk' = [onDisk EXCEPT ![c] = @ \cup {pass.r[c]}]
    /\ handleOpen' = [handleOpen EXCEPT ![c] = @ \cup {pass.r[c]}]
    /\ restrictSubsetFileDeletions' =
          IF c = Commitment THEN FALSE ELSE restrictSubsetFileDeletions
    /\ pass' = [pass EXCEPT
          !.task[c] = "done",
          !.mf[c] = pass.r[c],
          !.wg = AccStorageMergedDone(@, c, FALSE),
          !.refs = IF c = Commitment
                   THEN [acc |-> commitmentValTransformDomain(Inputs(Commitment, pass.r),
                                                              pass.vt.acc),
                         sto |-> commitmentValTransformDomain(Inputs(Commitment, pass.r),
                                                              pass.vt.sto)]
                   ELSE @]
    /\ UNCHANGED <<hotVars, dirtyFiles, visibleFiles, refcount, canDelete,
                   visibleFilesMinimaxTxNum, lockVars, buildingFiles, mergingFiles, thr,
                   roTx, round, sweeps, squeeze, content, batch, call, history>>

\* A task's mergeFiles fails; Accounts and Storage call Done all the same.
PassMergeErr(c) ==
    /\ pass.pc = "run"
    /\ pass.task[c] = "merging"
    /\ pass' = [pass EXCEPT !.task[c] = "failed", !.err = TRUE,
                            !.wg = AccStorageMergedDone(@, c, TRUE)]
    /\ UNCHANGED <<hotVars, fileVars, visibleFilesMinimaxTxNum, lockVars, flagVars, thr,
                   roTx, round, sweeps, squeeze, content, batch, call, history>>

\* g.Wait() returns an error: mf.Close() closes the merged files, nothing is integrated.
PassWaitErr ==
    /\ pass.pc = "run"
    /\ PassTasksDone
    /\ pass.err
    /\ handleOpen' = [c \in Comps |-> handleOpen[c] \ Merged(pass.mf, c)]
    /\ pass' = [pass EXCEPT !.pc = "failed"]
    /\ UNCHANGED <<hotVars, dirtyFiles, visibleFiles, refcount, canDelete, onDisk,
                   visibleFilesMinimaxTxNum, lockVars, flagVars, thr, roTx, round, sweeps,
                   squeeze, content, batch, call, history>>

\* g.Wait() returns nil: integrateMergedDirtyFiles with its recalculation of the
\* visible files; nothing else runs in this closer look.
PassWaitOk ==
    /\ pass.pc = "run"
    /\ PassTasksDone
    /\ ~pass.err
    /\ dirtyFiles' = [c \in Comps |-> IntegrateMerged(dirtyFiles[c], Merged(pass.mf, c))]
    /\ visibleFiles' = [c \in Comps |-> calcVisibleFiles(dirtyFiles'[c], canDelete[c])]
    /\ visibleFilesMinimaxTxNum' = minimaxTxNumInDomainFiles(visibleFiles')
    /\ pass' = [pass EXCEPT !.pc = "integrated"]
    /\ UNCHANGED <<hotVars, refcount, canDelete, onDisk, handleOpen, lockVars, flagVars,
                   thr, roTx, round, sweeps, squeeze, content, batch, call, history>>

\* cleanAfterMerge: the replaced files are retired; nobody reads them.
PassClean ==
    /\ pass.pc = "integrated"
    /\ dirtyFiles' = [c \in Comps |-> dirtyFiles[c] \ Garbage(c, pass.mf[c])]
    /\ canDelete' = [c \in Comps |-> canDelete[c] \cup Garbage(c, pass.mf[c])]
    /\ onDisk' = [c \in Comps |-> onDisk[c] \ Garbage(c, pass.mf[c])]
    /\ handleOpen' = [c \in Comps |-> handleOpen[c] \ Garbage(c, pass.mf[c])]
    /\ pass' = [pass EXCEPT !.pc = "cleaned"]
    /\ UNCHANGED <<hotVars, visibleFiles, refcount, visibleFilesMinimaxTxNum, lockVars,
                   flagVars, thr, roTx, round, sweeps, squeeze, content, batch, call, history>>

\* A folder with the files of steps 0 and 1 of every component, where some
\* components have the merged file already, and the pass over the ranges
\* findMergeRange gives.
InitMerge ==
    /\ currentTxNum = MaxTx
    /\ hotFrom = [c \in Comps |-> 0]
    /\ \E merged \in SUBSET Comps \ {Comps} :
          dirtyFiles = [c \in Comps |-> TwoSteps \cup
                                         (IF c \in merged THEN {TwoStepsMerged} ELSE {})]
    /\ visibleFiles = [c \in Comps |-> calcVisibleFiles(dirtyFiles[c], {})]
    /\ refcount = [c \in Comps |-> [f \in AllFiles |-> 0]]
    /\ canDelete = NoFiles
    /\ onDisk = dirtyFiles
    /\ handleOpen = dirtyFiles
    /\ visibleFilesMinimaxTxNum = minimaxTxNumInDomainFiles(visibleFiles)
    /\ dirtyFilesLock = "free"
    /\ visibleFilesLock = "free"
    /\ buildingFiles = FALSE
    /\ mergingFiles = TRUE
    /\ restrictSubsetFileDeletions = TRUE
    /\ thr = [t \in {"build", "merge"} |-> Idle]
    /\ roTx = [r \in Views |-> NoView]
    /\ round = NoRound
    /\ \E workers \in 1..MaxMergeWorkers :
          LET r == findMergeRange([files |-> visibleFiles], visibleFilesMinimaxTxNum,
                                  StepsInColdFile * StepSize)
          IN  pass = [pc |-> "run", workers |-> workers, r |-> r,
                      task |-> [c \in Comps |-> IF r[c] = NoRange THEN "skip" ELSE "new"],
                      wg |-> 0, mf |-> NoRanges, err |-> FALSE, blocked |-> FALSE,
                      vt |-> [acc |-> NoRange, sto |-> NoRange],
                      refs |-> [acc |-> {}, sto |-> {}]]
    /\ sweeps = NoSweeps
    /\ squeeze = NoSqueeze
    /\ content = NoContent
    /\ batch = NoBatch
    /\ call = NoCall
    /\ history = NoHistory

NextMerge ==
    \/ \E c \in Comps : PassGo(c)
    \/ PassCommitmentStart
    \/ PassCommitmentWait
    \/ \E c \in Comps : PassMerge(c)
    \/ \E c \in Comps : PassMergeErr(c)
    \/ PassWaitErr
    \/ PassWaitOk
    \/ PassClean

SpecMerge == InitMerge /\ [][NextMerge]_vars

\* The Go scheduler runs every goroutine that can take a step: the loop of
\* mergeFiles with its g.Go and g.Wait, and each task, whose own mergeFiles
\* returns with a file or with an error.
SpecMergeFair ==
    /\ SpecMerge
    /\ \A c \in Comps : WF_vars(PassGo(c))
    /\ WF_vars(PassCommitmentStart)
    /\ WF_vars(PassCommitmentWait)
    /\ \A c \in Comps : WF_vars(PassMerge(c) \/ PassMergeErr(c))
    /\ WF_vars(PassWaitErr \/ PassWaitOk)

\* ------------------------------------------------- MergeLoop to its end

\* A folder with no file, with the file of step 0, or with the files of steps
\* 0 and 1, where some components have the merged file of the two already;
\* MergeLoop has just been called.
InitMergeLoop ==
    /\ currentTxNum = MaxTx
    /\ hotFrom = [c \in Comps |-> 0]
    /\ \E files \in {{}, {StepFile(0)}, TwoSteps} : \E merged \in SUBSET Comps :
          /\ merged # {} => files = TwoSteps
          /\ dirtyFiles = [c \in Comps |->
                files \cup (IF c \in merged THEN {TwoStepsMerged} ELSE {})]
    /\ visibleFiles = [c \in Comps |-> calcVisibleFiles(dirtyFiles[c], {})]
    /\ refcount = [c \in Comps |-> [f \in AllFiles |-> 0]]
    /\ canDelete = NoFiles
    /\ onDisk = dirtyFiles
    /\ handleOpen = dirtyFiles
    /\ visibleFilesMinimaxTxNum = minimaxTxNumInDomainFiles(visibleFiles)
    /\ dirtyFilesLock = "free"
    /\ visibleFilesLock = "free"
    /\ buildingFiles = FALSE
    /\ mergingFiles = TRUE
    /\ restrictSubsetFileDeletions = TRUE
    /\ thr = [t \in {"build", "merge"} |-> IF t = "merge" THEN [Idle EXCEPT !.pc = "begin"]
                                           ELSE Idle]
    /\ roTx = [r \in Views |-> NoView]
    /\ round = NoRound
    /\ pass = NoPass
    /\ sweeps = NoSweeps
    /\ squeeze = NoSqueeze
    /\ content = NoContent
    /\ batch = NoBatch
    /\ call = NoCall
    /\ history = NoHistory

\* MergeLoop on a set of files nothing else adds to; users open and close views.
NextMergeLoop ==
    \/ \E r \in Views : UserBegin(r)
    \/ \E r \in Views : UserClose(r)
    \/ MergeBegin
    \/ MergeFind
    \/ MergeFilesOk
    \/ MergeFilesErr
    \/ IntegrateMergedDirtyFiles
    \/ RecalcVisibleFiles("merge")
    \/ MinimaxBegin("merge")
    \/ MinimaxStore("merge")
    \/ MinimaxClose("merge")
    \/ CleanBegin
    \/ CleanAfterMerge
    \/ CleanClose
    \/ MergeCloseAggTx

\* The goroutine that runs MergeLoop does not stand still for ever while it
\* could go on.
SpecMergeLoop == InitMergeLoop /\ [][NextMergeLoop]_vars /\ WF_vars(MergeGoroutine)

\* ------------------------------------------------- Close, more than once

\* A user calls Close on a handle, open or closed already; the handle keeps
\* its component handles (ac.d, ac.iis) when Close has set ac.a to nil.
Close(r) ==
    /\ RoTxClose(roTx[r])
    /\ roTx' = [roTx EXCEPT ![r].open = FALSE]
    /\ call' = [op |-> "Close", view |-> r, closedBefore |-> ~roTx[r].open]
    /\ UNCHANGED <<hotVars, dirtyFiles, visibleFiles, canDelete,
                   visibleFilesMinimaxTxNum, lockVars, flagVars, thr, round, pass,
                   sweeps, squeeze, content, batch, history>>

\* Users open views and close them any number of times next to MergeLoop,
\* which retires the files they pin.
NextClose ==
    \/ \E r \in Views : UserBegin(r)
    \/ \E r \in Views : Close(r)
    \/ MergeGoroutine

SpecClose == InitMergeLoop /\ [][NextClose]_vars

\* ------------------------------------------------- the public entry points
\* Callers of BuildFiles, BuildFilesInBackground, BuildMissedIndicesInBackground,
\* MergeLoop, BuildOptionalMissedIndices and BuildOptionalMissedIndicesInBackground,
\* and the sweeps they start: `g` counts the goroutines in each phase.

MaxCallers == 2

Callers == 1..MaxCallers

Phases == {"buildSema", "buildLoop", "missedIdx", "merge", "optional"}

SweepVars == <<hotVars, fileVars, visibleFilesMinimaxTxNum, lockVars,
               restrictSubsetFileDeletions, thr, roTx, round, pass, squeeze>>

\* Faulty variant of StoreFalse: the flag is left as it is.
StoreSkipped(flag) == flag

\* defer a.buildingFiles.Store(false), defer a.mergingFiles.Store(false) and
\* defer a.buildingOptionalIndices.Store(false): the value the flag has when
\* the function that set it returns, on whatever path.
StoreFalse(flag) == FALSE

\* a.buildingOptionalIndices.CompareAndSwap(false, true) and the goroutine of
\* BuildOptionalMissedIndicesInBackground, as changes of the `sweeps` record.
OptionalInBackground(sw) ==
    IF sw.buildingOptionalIndices THEN sw
    ELSE [sw EXCEPT !.buildingOptionalIndices = TRUE, !.g["optional"] = @ + 1]

\* close(fin) on the channel handed to caller k (0: the goroutine holds none).
CloseFin(sw, k) == IF k = 0 THEN sw ELSE [sw EXCEPT !.fin[k] = "closed"]

\* BuildFilesInBackground called by k: fin := make(chan struct{}); with production
\* off or too few txNums (~enough), or when the CAS on buildingFiles fails, fin
\* is closed and returned; else the build goroutine starts and holds fin.
BuildFilesInBackgroundBy(k, enough) ==
    IF ~enough \/ buildingFiles
    THEN CloseFin(sweeps, k)
    ELSE [sweeps EXCEPT !.g["buildSema"] = @ + 1, !.fin[k] = "open", !.holds["build"] = k]

\* A flag of a running sweep is set.
SweepFlag(sw) == buildingFiles \/ mergingFiles \/ sw.buildingOptionalIndices

\* BuildFilesInBackground; a caller keeps one channel at a time.
CallBuildFilesInBackground(k) ==
    /\ sweeps.caller[k] = "idle"
    /\ sweeps.fin[k] # "open"
    /\ \E enough \in BOOLEAN :
          /\ sweeps' = BuildFilesInBackgroundBy(k, enough)
          /\ buildingFiles' = (buildingFiles \/ enough)
    /\ UNCHANGED <<mergingFiles, SweepVars, content, batch, call, history>>

\* BuildFiles: BuildFilesInBackground; return nil when no flag is set; else the
\* select loop, which a closed `finished` leaves at once.
CallBuildFiles(k) ==
    /\ sweeps.caller[k] = "idle"
    /\ sweeps.fin[k] # "open"
    /\ \E enough \in BOOLEAN :
          LET sw == BuildFilesInBackgroundBy(k, enough)
          IN  /\ sweeps' = IF sw.fin[k] = "open" THEN [sw EXCEPT !.caller[k] = "buildFiles"]
                           ELSE sw
              /\ buildingFiles' = (buildingFiles \/ enough)
    /\ UNCHANGED <<mergingFiles, SweepVars, content, batch, call, history>>

\* The cases of the select of BuildFiles that are ready.
BuildFilesReady(sw, k) ==
    (IF sw.cancelled THEN {"ctx.Done"} ELSE {}) \cup
    (IF sw.fin[k] = "closed" THEN {"finished"} ELSE {}) \cup
    (IF ~SweepFlag(sw) THEN {"logEvery"} ELSE {})

\* BuildFiles returns: a.ctx is done (return a.ctx.Err()), `finished` is closed,
\* or at a tick of logEvery no flag is set (return nil); the select takes one
\* of the cases that are ready.
BuildFilesReturn(k) ==
    /\ sweeps.caller[k] = "buildFiles"
    /\ \E taken \in BuildFilesReady(sweeps, k) :
          sweeps' = [sweeps EXCEPT !.caller[k] = "idle",
                                   !.ret = IF taken = "ctx.Done" THEN "ctx.Err" ELSE "nil"]
    /\ UNCHANGED <<buildingFiles, mergingFiles, SweepVars, content, batch, call, history>>

\* Aggregator.Close: a.ctxCancel().
CtxCancel ==
    /\ ~sweeps.cancelled
    /\ sweeps' = [sweeps EXCEPT !.cancelled = TRUE]
    /\ UNCHANGED <<buildingFiles, mergingFiles, SweepVars, content, batch, call, history>>

\* semaphore.Weighted of weight 1: Acquire(ctx, 1) returns nil when no one
\* holds it; till then the goroutine blocks.
SemaFree(sw) == sw.sema = "free"

\* The build goroutine acquires a.snapshotBuildSema and, having data, enters
\* its loop.
BuildGoroutineLoop ==
    /\ sweeps.g["buildSema"] > 0
    /\ SemaFree(sweeps)
    /\ sweeps' = [sweeps EXCEPT !.g["buildSema"] = @ - 1, !.g["buildLoop"] = @ + 1,
                                !.sema = "aggregator"]
    /\ UNCHANGED <<buildingFiles, mergingFiles, SweepVars, content, batch, call, history>>

\* a.snapshotBuildSema.Acquire(a.ctx, 1) fails, which it does when a.ctx is
\* done: the goroutine logs and returns; defer a.buildingFiles.Store(false).
BuildGoroutineSemaFail ==
    /\ sweeps.g["buildSema"] > 0
    /\ sweeps.cancelled
    /\ sweeps' = [sweeps EXCEPT !.g["buildSema"] = @ - 1, !.holds["build"] = 0]
    /\ buildingFiles' = StoreFalse(buildingFiles)
    /\ UNCHANGED <<mergingFiles, SweepVars, content, batch, call, history>>

\* The build goroutine returns early (the semaphore acquired and no data, or
\* buildFiles cancelled): close(fin), defer a.snapshotBuildSema.Release(1) and
\* defer a.buildingFiles.Store(false).
BuildGoroutineReturn ==
    /\ \E ph \in {"buildSema", "buildLoop"} :
          /\ sweeps.g[ph] > 0
          /\ ph = "buildSema" => SemaFree(sweeps)
          /\ sweeps' = [CloseFin(sweeps, sweeps.holds["build"])
                           EXCEPT !.g[ph] = @ - 1, !.holds["build"] = 0, !.sema = "free"]
    /\ buildingFiles' = StoreFalse(buildingFiles)
    /\ UNCHANGED <<mergingFiles, SweepVars, content, batch, call, history>>

\* The build goroutine after its loop: BuildOptionalMissedIndicesInBackground;
\* with merges off, or when the CAS on mergingFiles fails, close(fin); else the
\* merge goroutine starts and holds fin; then the build goroutine returns:
\* defer a.snapshotBuildSema.Release(1), defer a.buildingFiles.Store(false).
BuildGoroutineFinish ==
    /\ sweeps.g["buildLoop"] > 0
    /\ \E noMerge \in BOOLEAN :
          LET sw == [OptionalInBackground(sweeps)
                        EXCEPT !.g["buildLoop"] = @ - 1, !.holds["build"] = 0,
                               !.sema = "free"]
          IN  IF noMerge \/ mergingFiles
              THEN /\ sweeps' = CloseFin(sw, sweeps.holds["build"])
                   /\ UNCHANGED mergingFiles
              ELSE /\ sweeps' = [sw EXCEPT !.g["merge"] = @ + 1,
                                           !.holds["merge"] = sweeps.holds["build"]]
                   /\ mergingFiles' = TRUE
    /\ buildingFiles' = StoreFalse(buildingFiles)
    /\ UNCHANGED <<SweepVars, content, batch, call, history>>

\* The merge goroutine returns after MergeLoop: BuildOptionalMissedIndicesInBackground
\* unless it was cancelled, defer close(fin) and defer a.mergingFiles.Store(false).
MergeGoroutineReturn ==
    /\ sweeps.g["merge"] > 0
    /\ \E cancelled \in BOOLEAN :
          LET sw == [CloseFin(sweeps, sweeps.holds["merge"])
                        EXCEPT !.g["merge"] = @ - 1, !.holds["merge"] = 0]
          IN  sweeps' = IF cancelled THEN sw ELSE OptionalInBackground(sw)
    /\ mergingFiles' = StoreFalse(mergingFiles)
    /\ UNCHANGED <<buildingFiles, SweepVars, content, batch, call, history>>

\* BuildMissedIndicesInBackground: the goroutine starts when the CAS on
\* buildingFiles wins; else the call returns.
CallBuildMissedIndicesInBackground(k) ==
    /\ sweeps.caller[k] = "idle"
    /\ buildingFiles' = TRUE
    /\ sweeps' = IF buildingFiles THEN sweeps ELSE [sweeps EXCEPT !.g["missedIdx"] = @ + 1]
    /\ UNCHANGED <<mergingFiles, SweepVars, content, batch, call, history>>

\* Its goroutine returns: defer a.buildingFiles.Store(false).
MissedIndicesReturn ==
    /\ sweeps.g["missedIdx"] > 0
    /\ sweeps' = [sweeps EXCEPT !.g["missedIdx"] = @ - 1]
    /\ buildingFiles' = StoreFalse(buildingFiles)
    /\ UNCHANGED <<mergingFiles, SweepVars, content, batch, call, history>>

\* MergeLoop: the caller runs mergeLoopStep until nothing is left to merge.
CallMergeLoop(k) ==
    /\ sweeps.caller[k] = "idle"
    /\ sweeps' = [sweeps EXCEPT !.caller[k] = "mergeLoop"]
    /\ UNCHANGED <<buildingFiles, mergingFiles, SweepVars, content, batch, call, history>>

\* MergeLoop returns: nil when nothing is left to merge, or the error of
\* mergeLoopStep, which is the context's when ctx is done during a merge.
MergeLoopReturn(k) ==
    /\ sweeps.caller[k] = "mergeLoop"
    /\ \E stopped \in (IF sweeps.cancelled THEN BOOLEAN ELSE {FALSE}) :
          sweeps' = [sweeps EXCEPT !.caller[k] = "idle",
                                   !.ret = IF stopped THEN "ctx.Err" ELSE "nil"]
    /\ UNCHANGED <<buildingFiles, mergingFiles, SweepVars, content, batch, call, history>>

\* BuildOptionalMissedIndices: when the CAS on buildingOptionalIndices wins the
\* caller builds the indices itself; else it returns nil.
CallBuildOptionalMissedIndices(k) ==
    /\ sweeps.caller[k] = "idle"
    /\ sweeps' = IF sweeps.buildingOptionalIndices THEN sweeps
                 ELSE [sweeps EXCEPT !.caller[k] = "optional",
                                     !.buildingOptionalIndices = TRUE]
    /\ UNCHANGED <<buildingFiles, mergingFiles, SweepVars, content, batch, call, history>>

\* BuildOptionalMissedIndices returns nil, also when the build was cancelled
\* (context.Canceled is filtered); defer a.buildingOptionalIndices.Store(false).
BuildOptionalMissedIndicesReturn(k) ==
    /\ sweeps.caller[k] = "optional"
    /\ sweeps' = [sweeps EXCEPT !.caller[k] = "idle", !.buildingOptionalIndices = StoreFalse(@),
                                !.ret = "nil"]
    /\ UNCHANGED <<buildingFiles, mergingFiles, SweepVars, content, batch, call, history>>

\* BuildOptionalMissedIndicesInBackground: the goroutine starts when the CAS
\* wins; else the call returns.
CallBuildOptionalMissedIndicesInBackground(k) ==
    /\ sweeps.caller[k] = "idle"
    /\ sweeps' = OptionalInBackground(sweeps)
    /\ UNCHANGED <<buildingFiles, mergingFiles, SweepVars, content, batch, call, history>>

\* Its goroutine returns: defer a.buildingOptionalIndices.Store(false).
OptionalGoroutineReturn ==
    /\ sweeps.g["optional"] > 0
    /\ sweeps' = [sweeps EXCEPT !.g["optional"] = @ - 1, !.buildingOptionalIndices = StoreFalse(@)]
    /\ UNCHANGED <<buildingFiles, mergingFiles, SweepVars, content, batch, call, history>>

\* A fresh Aggregator and callers that have not called anything yet.
InitSweeps ==
    /\ currentTxNum = MaxTx
    /\ hotFrom = [c \in Comps |-> 0]
    /\ dirtyFiles = NoFiles
    /\ visibleFiles = NoFiles
    /\ refcount = [c \in Comps |-> [f \in AllFiles |-> 0]]
    /\ canDelete = NoFiles
    /\ onDisk = NoFiles
    /\ handleOpen = NoFiles
    /\ visibleFilesMinimaxTxNum = 0
    /\ dirtyFilesLock = "free"
    /\ visibleFilesLock = "free"
    /\ buildingFiles = FALSE
    /\ mergingFiles = FALSE
    /\ restrictSubsetFileDeletions = TRUE
    /\ thr = [t \in {"build", "merge"} |-> Idle]
    /\ roTx = [r \in Views |-> NoView]
    /\ round = NoRound
    /\ pass = NoPass
    /\ sweeps = [pc |-> "run", caller |-> [k \in Callers |-> "idle"],
                 g |-> [ph \in Phases |-> 0], buildingOptionalIndices |-> FALSE,
                 fin |-> [k \in Callers |-> "none"],
                 holds |-> [t \in {"build", "merge"} |-> 0],
                 cancelled |-> FALSE, ret |-> "none",
                 sema |-> "free", br |-> "idle", close |-> "none"]
    /\ squeeze = NoSqueeze
    /\ content = NoContent
    /\ batch = NoBatch
    /\ call = NoCall
    /\ history = NoHistory

NextSweeps ==
    \/ \E k \in Callers : CallBuildFilesInBackground(k)
    \/ \E k \in Callers : CallBuildFiles(k)
    \/ \E k \in Callers : BuildFilesReturn(k)
    \/ CtxCancel
    \/ BuildGoroutineLoop
    \/ BuildGoroutineSemaFail
    \/ BuildGoroutineReturn
    \/ BuildGoroutineFinish
    \/ MergeGoroutineReturn
    \/ \E k \in Callers : CallBuildMissedIndicesInBackground(k)
    \/ MissedIndicesReturn
    \/ \E k \in Callers : CallMergeLoop(k)
    \/ \E k \in Callers : MergeLoopReturn(k)
    \/ \E k \in Callers : CallBuildOptionalMissedIndices(k)
    \/ \E k \in Callers : BuildOptionalMissedIndicesReturn(k)
    \/ \E k \in Callers : CallBuildOptionalMissedIndicesInBackground(k)
    \/ OptionalGoroutineReturn

SpecSweeps == InitSweeps /\ [][NextSweeps]_vars

\* a.wg: Add(1) before each `go`, Done in each goroutine's defer.
WgCounter(sw) ==
    sw.g["buildSema"] + sw.g["buildLoop"] + sw.g["missedIdx"] + sw.g["merge"] + sw.g["optional"]

\* Aggregator.Close after a.ctxCancel(): a.wg.Wait() returns when the counter
\* is zero; Close goes on to closeDirtyFiles and recalcVisibleFiles.
WgWait ==
    /\ sweeps.cancelled
    /\ sweeps.close = "none"
    /\ WgCounter(sweeps) = 0
    /\ sweeps' = [sweeps EXCEPT !.close = "closeDirtyFiles"]
    /\ UNCHANGED <<buildingFiles, mergingFiles, SweepVars, content, batch, call, history>>

\* Aggregator.Close returns.
CloseReturn ==
    /\ sweeps.close = "closeDirtyFiles"
    /\ sweeps' = [sweeps EXCEPT !.close = "returned"]
    /\ UNCHANGED <<buildingFiles, mergingFiles, SweepVars, content, batch, call, history>>

\* The entry points next to a call of Aggregator.Close.
NextShutdown == NextSweeps \/ WgWait \/ CloseReturn

SpecShutdown == InitSweeps /\ [][NextShutdown]_vars

\* BlockRetire.RetireBlocksInBackground: the goroutine starts when the CAS on
\* br.working wins; else the call returns.
RetireBlocksInBackground ==
    /\ sweeps' = IF sweeps.br = "idle" THEN [sweeps EXCEPT !.br = "acquire"] ELSE sweeps
    /\ UNCHANGED <<buildingFiles, mergingFiles, SweepVars, content, batch, call, history>>

\* Its goroutine acquires br.snBuildAllowed, the semaphore it shares with the
\* Aggregator, and runs RetireBlocks.
RetireBlocksAcquire ==
    /\ sweeps.br = "acquire"
    /\ SemaFree(sweeps)
    /\ sweeps' = [sweeps EXCEPT !.br = "retire", !.sema = "blockRetire"]
    /\ UNCHANGED <<buildingFiles, mergingFiles, SweepVars, content, batch, call, history>>

\* Its goroutine returns: Acquire has failed on a done context, or RetireBlocks
\* has ended and defer br.snBuildAllowed.Release(1) runs; defer br.working.Store(false).
RetireBlocksReturn ==
    /\ \/ sweeps.br = "acquire" /\ sweeps.cancelled /\ sweeps' = [sweeps EXCEPT !.br = "idle"]
       \/ sweeps.br = "retire" /\ sweeps' = [sweeps EXCEPT !.br = "idle", !.sema = "free"]
    /\ UNCHANGED <<buildingFiles, mergingFiles, SweepVars, content, batch, call, history>>

\* The Aggregator's background sweep next to the retirement of blocks.
NextSema ==
    \/ \E k \in Callers : CallBuildFilesInBackground(k)
    \/ CtxCancel
    \/ BuildGoroutineLoop
    \/ BuildGoroutineSemaFail
    \/ BuildGoroutineReturn
    \/ BuildGoroutineFinish
    \/ MergeGoroutineReturn
    \/ OptionalGoroutineReturn
    \/ RetireBlocksInBackground
    \/ RetireBlocksAcquire
    \/ RetireBlocksReturn

SpecSema == InitSweeps /\ [][NextSema]_vars

\* The steps of the build goroutine of BuildFilesInBackground.
BuildSweepGoroutine ==
    \/ BuildGoroutineLoop
    \/ BuildGoroutineSemaFail
    \/ BuildGoroutineReturn
    \/ BuildGoroutineFinish

\* The Go scheduler runs a goroutine that can take a step: no background
\* sweep stands still for ever.
SpecSweepsLive ==
    /\ SpecSweeps
    /\ WF_vars(BuildSweepGoroutine)
    /\ WF_vars(MergeGoroutineReturn)
    /\ WF_vars(MissedIndicesReturn)
    /\ WF_vars(OptionalGoroutineReturn)

\* ------------------------------------------------- SqueezeCommitmentFiles
\* AggregatorRoTx.SqueezeCommitmentFiles through an open view, next to users who
\* open and close views.

\* What a component's folder may hold of steps 0 and 1: nothing, the step
\* files, the step files with the file merged from them, the merged file alone.
FolderStates ==
    {{}, {StepFile(0)}, TwoSteps, TwoSteps \cup {TwoStepsMerged}, {TwoStepsMerged}}

\* The Accounts and Storage dirty files of the same range as cf exist.
HasAccountsAndStorage(cf) == cf \in dirtyFiles[Accounts] /\ cf \in dirtyFiles[Storage]

\* SqueezeCommitmentFiles is called on the view r: commitFiles := dirtyFiles.Items().
SqueezeBegin(r) ==
    /\ roTx[r].open
    /\ squeeze.pc = "idle"
    /\ squeeze' = [pc |-> "loop", commitFiles |-> SortFiles(dirtyFiles[Commitment]),
                   ci |-> 1, obsoleteFiles |-> {}, temporalFiles |-> {}]
    /\ UNCHANGED <<hotVars, fileVars, visibleFilesMinimaxTxNum, lockVars, flagVars, thr,
                   roTx, round, pass, sweeps, content, batch, call, history>>

\* Faulty variant of RemovedInLoop: the original is removed as soon as its
\* squeezed file is written.
RemovedInLoopEager(cf) == {cf}

\* The originals the loop over commitFiles removes itself: none, it only
\* appends their paths to obsoleteFiles.
RemovedInLoop(cf) == {}

\* One commitment file: skipped without its Accounts and Storage files, else
\* rewritten into a ".squeezed" file next to it and noted as obsolete.
SqueezeFile ==
    /\ squeeze.pc = "loop"
    /\ squeeze.ci <= Len(squeeze.commitFiles)
    /\ LET cf == squeeze.commitFiles[squeeze.ci]
       IN  IF HasAccountsAndStorage(cf)
           THEN /\ squeeze' = [squeeze EXCEPT !.ci = @ + 1,
                                              !.obsoleteFiles = @ \cup {cf},
                                              !.temporalFiles = @ \cup {cf}]
                /\ onDisk' = [onDisk EXCEPT ![Commitment] = @ \ RemovedInLoop(cf)]
           ELSE /\ squeeze' = [squeeze EXCEPT !.ci = @ + 1]
                /\ UNCHANGED onDisk
    /\ UNCHANGED <<hotVars, dirtyFiles, visibleFiles, refcount, canDelete, handleOpen,
                   visibleFilesMinimaxTxNum, lockVars, flagVars, thr, roTx, round, pass,
                   sweeps, content, batch, call, history>>

\* Rewriting a commitment file fails (vt returns an error, or a write does):
\* SqueezeCommitmentFiles returns the error from inside its loop.
SqueezeFileErr ==
    /\ squeeze.pc = "loop"
    /\ squeeze.ci <= Len(squeeze.commitFiles)
    /\ HasAccountsAndStorage(squeeze.commitFiles[squeeze.ci])
    /\ squeeze' = [squeeze EXCEPT !.pc = "failed"]
    /\ UNCHANGED <<hotVars, fileVars, visibleFilesMinimaxTxNum, lockVars, flagVars, thr,
                   roTx, round, pass, sweeps, content, batch, call, history>>

\* for _, path := range obsoleteFiles { os.Remove(path) }: the original files
\* are unlinked; their decompressors stay as they are.
SqueezeRemove ==
    /\ squeeze.pc = "loop"
    /\ squeeze.ci > Len(squeeze.commitFiles)
    /\ onDisk' = [onDisk EXCEPT ![Commitment] = @ \ squeeze.obsoleteFiles]
    /\ squeeze' = [squeeze EXCEPT !.pc = "rename"]
    /\ UNCHANGED <<hotVars, dirtyFiles, visibleFiles, refcount, canDelete, handleOpen,
                   visibleFilesMinimaxTxNum, lockVars, flagVars, thr, roTx, round, pass,
                   sweeps, content, batch, call, history>>

\* for _, path := range temporalFiles { os.Rename(path, ...) }: the squeezed
\* files take the paths of the originals, or a rename fails and the call returns.
SqueezeRename ==
    /\ squeeze.pc = "rename"
    /\ \/ /\ onDisk' = [onDisk EXCEPT ![Commitment] = @ \cup squeeze.temporalFiles]
          /\ squeeze' = [squeeze EXCEPT !.pc = "done"]
       \/ /\ squeeze.temporalFiles # {}
          /\ UNCHANGED onDisk
          /\ squeeze' = [squeeze EXCEPT !.pc = "failed"]
    /\ UNCHANGED <<hotVars, dirtyFiles, visibleFiles, refcount, canDelete, handleOpen,
                   visibleFilesMinimaxTxNum, lockVars, flagVars, thr, roTx, round, pass,
                   sweeps, content, batch, call, history>>

\* An opened folder, no background work, no view yet.
InitSqueeze ==
    /\ currentTxNum = MaxTx
    /\ hotFrom = [c \in Comps |-> 0]
    /\ \E acc \in FolderStates, sto \in FolderStates, com \in FolderStates :
          dirtyFiles = [c \in Comps |-> IF c = Storage THEN sto
                                        ELSE IF c = Commitment THEN com ELSE acc]
    /\ visibleFiles = [c \in Comps |-> calcVisibleFiles(dirtyFiles[c], {})]
    /\ refcount = [c \in Comps |-> [f \in AllFiles |-> 0]]
    /\ canDelete = NoFiles
    /\ onDisk = dirtyFiles
    /\ handleOpen = dirtyFiles
    /\ visibleFilesMinimaxTxNum = minimaxTxNumInDomainFiles(visibleFiles)
    /\ dirtyFilesLock = "free"
    /\ visibleFilesLock = "free"
    /\ buildingFiles = FALSE
    /\ mergingFiles = FALSE
    /\ restrictSubsetFileDeletions = TRUE
    /\ thr = [t \in {"build", "merge"} |-> Idle]
    /\ roTx = [r \in Views |-> NoView]
    /\ round = NoRound
    /\ pass = NoPass
    /\ sweeps = NoSweeps
    /\ squeeze = [pc |-> "idle"]
    /\ content = NoContent
    /\ batch = NoBatch
    /\ call = NoCall
    /\ history = NoHistory

NextSqueeze ==
    \/ \E r \in Views : UserBegin(r)
    \/ \E r \in Views : UserClose(r)
    \/ \E r \in Views : SqueezeBegin(r)
    \/ SqueezeFile
    \/ SqueezeFileErr
    \/ SqueezeRemove
    \/ SqueezeRename

SpecSqueeze == InitSqueeze /\ [][NextSqueeze]_vars

\* ------------------------------------------------- what a merged file holds

MaxKeys == 2

Keys == 1..MaxKeys

NoValue == [found |-> FALSE, v |-> 0]

\* The value a write of txNum t stores: no two writes store the same value.
ValueOf(k, t) == t * MaxKeys + k

\* File rows <<key, txNum, value>> are kept ordered by key, then by txNum.
RowLess(x, y) == x[1] < y[1] \/ (x[1] = y[1] /\ x[2] < y[2])

\* Collate and BuildFiles: the rows of the keys from `k` on with txNums in
\* [from, to), where w[t] is the key txNum t wrote (0: it wrote none).
RECURSIVE FileRows(_, _, _, _)
FileRows(w, from, to, k) ==
    IF k > MaxKeys THEN <<>>
    ELSE LET RECURSIVE KeyRows(_)
             KeyRows(t) == IF t >= to THEN <<>>
                           ELSE IF w[t] = k
                                THEN <<<<k, t, ValueOf(k, t)>>>> \o KeyRows(t + 1)
                                ELSE KeyRows(t + 1)
         IN  KeyRows(from) \o FileRows(w, from, to, k + 1)

BuiltFile(w, from, to) == [range |-> <<from, to>>, rows |-> FileRows(w, from, to, 1)]

\* Faulty variant of MergeRows: of a key both files hold, only the rows of the
\* later file are kept.
RECURSIVE MergeRowsLatestOnly(_, _)
MergeRowsLatestOnly(s1, s2) ==
    IF s1 = <<>> THEN s2
    ELSE IF s2 = <<>> THEN s1
    ELSE IF Head(s1)[1] = Head(s2)[1] THEN MergeRowsLatestOnly(Tail(s1), s2)
    ELSE IF RowLess(Head(s1), Head(s2))
         THEN <<Head(s1)>> \o MergeRowsLatestOnly(Tail(s1), s2)
         ELSE <<Head(s2)>> \o MergeRowsLatestOnly(s1, Tail(s2))

\* The merge of two ordered row sequences: the smaller head goes first, and
\* every row of both inputs is kept.
RECURSIVE MergeRows(_, _)
MergeRows(s1, s2) ==
    IF s1 = <<>> THEN s2
    ELSE IF s2 = <<>> THEN s1
    ELSE IF RowLess(Head(s2), Head(s1))
         THEN <<Head(s2)>> \o MergeRows(s1, Tail(s2))
         ELSE <<Head(s1)>> \o MergeRows(Tail(s1), s2)

\* Domain.mergeFiles on two adjacent files: one file over both ranges.
mergeFiles(f1, f2) ==
    [range |-> <<f1.range[1], f2.range[2]>>, rows |-> MergeRows(f1.rows, f2.rows)]

\* The last row of `key` with a txNum <= ts the scan of a file comes by.
RECURSIVE SeekRows(_, _, _, _)
SeekRows(rows, key, ts, best) ==
    IF rows = <<>> THEN best
    ELSE LET h == Head(rows)
         IN  SeekRows(Tail(rows), key, ts,
                      IF h[1] = key /\ h[2] <= ts THEN [found |-> TRUE, v |-> h[3]]
                      ELSE best)

\* GetAsOf on a list of files, newest first: the first file that has a row of
\* the key at or below ts answers.
RECURSIVE GetAsOf(_, _, _)
GetAsOf(files, key, ts) ==
    IF files = <<>> THEN NoValue
    ELSE LET here == IF Head(files).range[1] <= ts
                     THEN SeekRows(Head(files).rows, key, ts, NoValue)
                     ELSE NoValue
         IN  IF here.found THEN here ELSE GetAsOf(Tail(files), key, ts)

\* DomainGetAsOf: ok is "the value is not nil".
DomainGetAsOf(files, key, ts) == GetAsOf(files, key, ts)

StepBounds == {firstTxNumOfStep(s, StepSize) : s \in 0..MaxSteps}

\* mergeFiles of the two files succeeds.
ContentMerge ==
    /\ content.pc = "files"
    /\ content' = [content EXCEPT !.pc = "merged",
                                  !.out = <<mergeFiles(content.in[2], content.in[1])>>]
    /\ UNCHANGED <<hotVars, fileVars, visibleFilesMinimaxTxNum, lockVars, flagVars, thr,
                   roTx, round, pass, sweeps, squeeze, batch, call, history>>

\* mergeFiles of the two files fails: no file is produced.
ContentMergeErr ==
    /\ content.pc = "files"
    /\ content' = [content EXCEPT !.pc = "failed"]
    /\ UNCHANGED <<hotVars, fileVars, visibleFilesMinimaxTxNum, lockVars, flagVars, thr,
                   roTx, round, pass, sweeps, squeeze, batch, call, history>>

\* Two adjacent files [a,b) and [b,c) built from the writes of [a,c); the
\* list holds the newer file first.
InitContent ==
    /\ currentTxNum = MaxTx
    /\ hotFrom = [c \in Comps |-> 0]
    /\ dirtyFiles = NoFiles
    /\ visibleFiles = NoFiles
    /\ refcount = [c \in Comps |-> [f \in AllFiles |-> 0]]
    /\ canDelete = NoFiles
    /\ onDisk = NoFiles
    /\ handleOpen = NoFiles
    /\ visibleFilesMinimaxTxNum = 0
    /\ dirtyFilesLock = "free"
    /\ visibleFilesLock = "free"
    /\ buildingFiles = FALSE
    /\ mergingFiles = TRUE
    /\ restrictSubsetFileDeletions = TRUE
    /\ thr = [t \in {"build", "merge"} |-> Idle]
    /\ roTx = [r \in Views |-> NoView]
    /\ round = NoRound
    /\ pass = NoPass
    /\ sweeps = NoSweeps
    /\ squeeze = NoSqueeze
    /\ \E a, b, c \in StepBounds :
          /\ a < b /\ b < c
          /\ \E w \in [a..(c - 1) -> 0..MaxKeys] :
                content = [pc |-> "files",
                           in |-> <<BuiltFile(w, b, c), BuiltFile(w, a, b)>>,
                           out |-> <<>>]
    /\ batch = NoBatch
    /\ call = NoCall
    /\ history = NoHistory

NextContent ==
    \/ ContentMerge
    \/ ContentMergeErr

SpecContent == InitContent /\ [][NextContent]_vars

\* ------------------------------------------------- pruning in small batches

\* AggregatorPruneStat.PrunedNothing: no domain and no index has pruned a row.
PrunedNothing(before, after) == \A c \in Comps : after[c] = before[c]

\* What a Prune pass hands back: "nil" when there is no boundary or CanPrune
\* says no, else the statistics of a pass that pruned nothing, or something.
StatOf(ac, limit) ==
    IF 0 = PruneTxTo \/ ~CanPrune(ac, PruneTxTo) THEN "nil"
    ELSE IF PrunedNothing(hotFrom, [c \in Comps |-> PruneComponent(hotFrom[c], PruneTxTo, limit)])
         THEN "nothing"
         ELSE "some"

\* The select after a pass: the cases that are ready, one of which is taken;
\* PruneSmallBatches has the case of logEvery in the same select.
Ready(b, logTick) ==
    (IF b.timedOut THEN {"timeout"} ELSE {}) \cup
    (IF b.ctxDone THEN {"cancelled"} ELSE {}) \cup
    (IF logTick /\ b.mode = "tx" THEN {"log"} ELSE {})

\* How one iteration of the loop ends.  PruneSmallBatches returns at once on a
\* nil stat or a stat that pruned nothing; PruneSmallBatchesDb sets goExit on a
\* nil stat only, and looks at it after its select.
IterationEnds(b, stat, taken) ==
    IF b.mode = "tx"
    THEN IF stat \in {"nil", "nothing"} THEN "done"
         ELSE IF taken \in {"timeout", "cancelled"} THEN taken ELSE "loop"
    ELSE IF taken \in {"timeout", "cancelled"} THEN taken
         ELSE IF stat = "nil" THEN "done" ELSE "loop"

\* localTimeout ticks: the time budget of the call is used up.
BatchTimeout ==
    /\ batch.pc = "loop"
    /\ ~batch.timedOut
    /\ batch' = [batch EXCEPT !.timedOut = TRUE]
    /\ UNCHANGED <<hotVars, fileVars, visibleFilesMinimaxTxNum, lockVars, flagVars, thr,
                   roTx, round, pass, sweeps, squeeze, content, call, history>>

\* The caller's context is cancelled.
BatchCancel ==
    /\ batch.pc = "loop"
    /\ ~batch.ctxDone
    /\ batch' = [batch EXCEPT !.ctxDone = TRUE]
    /\ UNCHANGED <<hotVars, fileVars, visibleFilesMinimaxTxNum, lockVars, flagVars, thr,
                   roTx, round, pass, sweeps, squeeze, content, call, history>>

\* One iteration: ac.Prune with the batch's key limit, then the select.
BatchPass(limit, logTick) ==
    /\ batch.pc = "loop"
    /\ LET ac == roTx[1]
           stat == StatOf(ac, limit)
       IN  /\ hotFrom' = IF stat = "nil" THEN hotFrom
                         ELSE [c \in Comps |-> PruneComponent(hotFrom[c], PruneTxTo, limit)]
           /\ \E taken \in (IF Ready(batch, logTick) = {} THEN {"default"}
                            ELSE Ready(batch, logTick)) :
                 LET end == IterationEnds(batch, stat, taken)
                 IN  batch' = [batch EXCEPT !.pc = IF end = "loop" THEN "loop" ELSE "returned",
                                            !.last = stat,
                                            !.result = end]
    /\ UNCHANGED <<currentTxNum, fileVars, visibleFilesMinimaxTxNum, lockVars, flagVars,
                   thr, roTx, round, pass, sweeps, squeeze, content, call, history>>

\* A folder opened after a crash in a build round: every component has the
\* files of the first n steps and some have the file of the next step too; a
\* view is open and PruneSmallBatches ("tx") or PruneSmallBatchesDb ("db") is
\* called on it.
InitBatch ==
    /\ currentTxNum = MaxTx
    /\ hotFrom = [c \in Comps |-> 0]
    /\ \E n \in 0..(MaxSteps - 1) : \E ahead \in SUBSET Comps :
          dirtyFiles = [c \in Comps |->
                {StepFile(s) : s \in 0..(n - 1)} \cup
                (IF c \in ahead THEN {StepFile(n)} ELSE {})]
    /\ visibleFiles = [c \in Comps |-> calcVisibleFiles(dirtyFiles[c], {})]
    /\ refcount = [c \in Comps |-> [f \in AllFiles |->
                      IF f \in visibleFiles[c] THEN 1 ELSE 0]]
    /\ canDelete = NoFiles
    /\ onDisk = dirtyFiles
    /\ handleOpen = dirtyFiles
    /\ visibleFilesMinimaxTxNum = minimaxTxNumInDomainFiles(visibleFiles)
    /\ dirtyFilesLock = "free"
    /\ visibleFilesLock = "free"
    /\ buildingFiles = FALSE
    /\ mergingFiles = FALSE
    /\ restrictSubsetFileDeletions = TRUE
    /\ thr = [t \in {"build", "merge"} |-> Idle]
    /\ roTx = [r \in Views |-> IF r = 1 THEN [open |-> TRUE, files |-> visibleFiles]
                                 ELSE NoView]
    /\ round = NoRound
    /\ pass = NoPass
    /\ sweeps = NoSweeps
    /\ squeeze = NoSqueeze
    /\ content = NoContent
    /\ \E mode \in {"tx", "db"} :
          batch = [pc |-> "loop", mode |-> mode, timedOut |-> FALSE, ctxDone |-> FALSE,
                   last |-> "none", result |-> "none"]
    /\ call = NoCall
    /\ history = NoHistory

NextBatch ==
    \/ BatchTimeout
    \/ BatchCancel
    \/ \E limit \in Limits, logTick \in BOOLEAN : BatchPass(limit, logTick)

SpecBatch == InitBatch /\ [][NextBatch]_vars

\* ------------------------------------------------- opening a folder
\* Aggregator.OpenFolder on the files a run left behind: every component scans
\* the folder in a goroutine of its own, then recalcVisibleFiles.

\* commitmentFileMustExist: the .kv file of Commitment for the steps is in the folder.
commitmentFileMustExist(f) == f \in onDisk[Commitment]

\* Faulty variant of integrityCheck: every file is trusted.
integrityCheckTrusting(name, f) == TRUE

\* integrityCheck of NewAggregator, on the file f of the domain `name`.
integrityCheck(name, f) ==
    LET fromStep == f[1] \div StepSize
        toStep == f[2] \div StepSize
    IN  IF name \in {Accounts, Storage, Code}
        THEN IF toStep - fromStep > 1 THEN TRUE ELSE commitmentFileMustExist(f)
        ELSE TRUE

\* Domain.OpenFolder / InvertedIndex.OpenFolder of one component: the files
\* of the folder become dirty files, but for those of a domain that fail
\* integrityCheck, which are passed over as if they were not there.
ComponentOpenFolder(c) ==
    /\ call.op = "OpenFolder"
    /\ call.pc = "scan"
    /\ c \notin call.opened
    /\ LET found == IF c \in Domains THEN {f \in onDisk[c] : integrityCheck(c, f)}
                    ELSE onDisk[c]
       IN  /\ dirtyFiles' = [dirtyFiles EXCEPT ![c] = found]
           /\ handleOpen' = [handleOpen EXCEPT ![c] = found]
    /\ call' = [call EXCEPT !.opened = @ \cup {c}]
    /\ UNCHANGED <<hotVars, visibleFiles, refcount, canDelete, onDisk,
                   visibleFilesMinimaxTxNum, lockVars, flagVars, thr, roTx, round, pass,
                   sweeps, squeeze, content, batch, history>>

\* eg.Wait() returns nil, the lock is released and the deferred
\* recalcVisibleFiles runs: OpenFolder returns nil.
OpenFolderReturn ==
    /\ call.op = "OpenFolder"
    /\ call.pc = "scan"
    /\ call.opened = Comps
    /\ visibleFiles' = [c \in Comps |-> calcVisibleFiles(dirtyFiles[c], {})]
    /\ visibleFilesMinimaxTxNum' = minimaxTxNumInDomainFiles(visibleFiles')
    /\ dirtyFilesLock' = "free"
    /\ call' = [call EXCEPT !.pc = "returned", !.err = "nil"]
    /\ UNCHANGED <<hotVars, dirtyFiles, refcount, canDelete, onDisk, handleOpen,
                   visibleFilesLock, flagVars, thr, roTx, round, pass, sweeps, squeeze,
                   content, batch, history>>

\* A folder after a run that may have been killed in a build round or in a
\* merge: each component holds one of FolderStates; OpenFolder has the lock.
InitOpen ==
    /\ currentTxNum = MaxTx
    /\ hotFrom = [c \in Comps |-> 0]
    /\ dirtyFiles = NoFiles
    /\ visibleFiles = NoFiles
    /\ refcount = [c \in Comps |-> [f \in AllFiles |-> 0]]
    /\ canDelete = NoFiles
    /\ \E acc \in FolderStates, sto \in FolderStates, cod \in FolderStates,
          com \in FolderStates :
          onDisk = [c \in Comps |-> IF c = Accounts THEN acc
                                    ELSE IF c = Storage THEN sto
                                    ELSE IF c = Code THEN cod
                                    ELSE com]
    /\ handleOpen = NoFiles
    /\ visibleFilesMinimaxTxNum = 0
    /\ dirtyFilesLock = "OpenFolder"
    /\ visibleFilesLock = "free"
    /\ buildingFiles = FALSE
    /\ mergingFiles = FALSE
    /\ restrictSubsetFileDeletions = TRUE
    /\ thr = [t \in {"build", "merge"} |-> Idle]
    /\ roTx = [r \in Views |-> NoView]
    /\ round = NoRound
    /\ pass = NoPass
    /\ sweeps = NoSweeps
    /\ squeeze = NoSqueeze
    /\ content = NoContent
    /\ batch = NoBatch
    /\ call = [op |-> "OpenFolder", pc |-> "scan", opened |-> {}, err |-> "none"]
    /\ history = NoHistory

NextOpen ==
    \/ \E c \in Comps : ComponentOpenFolder(c)
    \/ OpenFolderReturn

SpecOpen == InitOpen /\ [][NextOpen]_vars

\* ------------------------------------------------- the Commitment history
\* The history of the Commitment domain never produces files
\* (snapshotsDisabled): its rows [history.from, currentTxNum) stay in the hot
\* store until a prune removes them.

\* The values KeepRecentTxnsOfHistoriesWithDisabledSnapshots is called with.
MaxKeep == 2

\* math.MaxUint64: above every txNum.
MaxUint64 == MaxTx + StepSize

\* Faulty variant of canPruneUntil: no floor of recent txNums.
canPruneUntilNoFloor(h, untilTx) ==
    LET txTo == Min2(currentTxNum, untilTx)
    IN  [can |-> h.from < txTo, txTo |-> txTo]

\* HistoryRoTx.canPruneUntil of a history that produces no files: nothing
\* when the table holds no more than keepRecentTxnInDB txNums, else up to the
\* highest txNum less keepRecentTxnInDB, and not beyond untilTx.
canPruneUntil(h, untilTx) ==
    LET maxIdxTx == IF currentTxNum = 0 THEN 0 ELSE currentTxNum - 1
    IN  IF h.keepRecentTxnInDB >= maxIdxTx THEN [can |-> FALSE, txTo |-> 0]
        ELSE LET txTo == Min2(maxIdxTx - h.keepRecentTxnInDB, untilTx)
             IN  [can |-> h.from < txTo, txTo |-> txTo]

\* Aggregator.KeepRecentTxnsOfHistoriesWithDisabledSnapshots(recentTxs).
KeepRecentTxnsOfHistoriesWithDisabledSnapshots(recentTxs) ==
    /\ history.pc = "run"
    /\ history' = [history EXCEPT !.keepRecentTxnInDB = recentTxs]
    /\ UNCHANGED <<hotVars, fileVars, visibleFilesMinimaxTxNum, lockVars, flagVars, thr,
                   roTx, round, pass, sweeps, squeeze, content, batch, call>>

\* Aggregator.DiscardHistory and Aggregator.EnableHistory on the Commitment domain.
DiscardOrEnableHistory(disabled) ==
    /\ history.pc = "run"
    /\ history' = [history EXCEPT !.historyDisabled = disabled]
    /\ UNCHANGED <<hotVars, fileVars, visibleFilesMinimaxTxNum, lockVars, flagVars, thr,
                   roTx, round, pass, sweeps, squeeze, content, batch, call>>

\* AggregatorRoTx.PruneCommitHistory: nothing with the history disabled or
\* when canPruneUntil says no; else every row below txTo goes.
PruneCommitHistory ==
    /\ history.pc = "run"
    /\ roTx[1].open
    /\ LET until == canPruneUntil(history, MaxUint64)
       IN  history' = IF history.historyDisabled \/ ~until.can THEN history
                      ELSE [history EXCEPT !.from = until.txTo]
    /\ UNCHANGED <<hotVars, fileVars, visibleFilesMinimaxTxNum, lockVars, flagVars, thr,
                   roTx, round, pass, sweeps, squeeze, content, batch, call>>

\* AggregatorRoTx.Prune: the domains and the indices up to the horizon, and
\* the history of Commitment, not forced, up to what canPruneUntil allows.
PruneWithHistory(limit) ==
    /\ history.pc = "run"
    /\ roTx[1].open
    /\ LET txTo == PruneTxTo
           until == canPruneUntil(history, txTo)
       IN  /\ ~(0 = txTo \/ ~CanPrune(roTx[1], txTo))
           /\ hotFrom' = [c \in Comps |-> PruneComponent(hotFrom[c], txTo, limit)]
           /\ history' = IF ~until.can THEN history
                         ELSE [history EXCEPT !.from =
                                  IF limit = 0 THEN until.txTo
                                  ELSE Min2(until.txTo, @ + limit)]
    /\ UNCHANGED <<currentTxNum, fileVars, visibleFilesMinimaxTxNum, lockVars, flagVars,
                   thr, roTx, round, pass, sweeps, squeeze, content, batch, call>>

\* A folder with the files of the first n steps, a hot store that holds
\* their txNums still, and an open view.
InitHistory ==
    /\ \E n \in 0..MaxSteps :
          /\ currentTxNum = n * StepSize
          /\ dirtyFiles = [c \in Comps |-> {StepFile(s) : s \in 0..(n - 1)}]
    /\ hotFrom = [c \in Comps |-> 0]
    /\ visibleFiles = [c \in Comps |-> calcVisibleFiles(dirtyFiles[c], {})]
    /\ refcount = [c \in Comps |-> [f \in AllFiles |->
                      IF f \in visibleFiles[c] THEN 1 ELSE 0]]
    /\ canDelete = NoFiles
    /\ onDisk = dirtyFiles
    /\ handleOpen = dirtyFiles
    /\ visibleFilesMinimaxTxNum = minimaxTxNumInDomainFiles(visibleFiles)
    /\ dirtyFilesLock = "free"
    /\ visibleFilesLock = "free"
    /\ buildingFiles = FALSE
    /\ mergingFiles = FALSE
    /\ restrictSubsetFileDeletions = TRUE
    /\ thr = [t \in {"build", "merge"} |-> Idle]
    /\ roTx = [r \in Views |-> IF r = 1 THEN [open |-> TRUE, files |-> visibleFiles]
                                 ELSE NoView]
    /\ round = NoRound
    /\ pass = NoPass
    /\ sweeps = NoSweeps
    /\ squeeze = NoSqueeze
    /\ content = NoContent
    /\ batch = NoBatch
    /\ call = NoCall
    /\ \E keep \in 0..MaxKeep :
          history = [pc |-> "run", from |-> 0, keepRecentTxnInDB |-> keep,
                     historyDisabled |-> FALSE]

NextHistory ==
    \/ WriteTx
    \/ \E recentTxs \in 0..MaxKeep : KeepRecentTxnsOfHistoriesWithDisabledSnapshots(recentTxs)
    \/ \E disabled \in BOOLEAN : DiscardOrEnableHistory(disabled)
    \/ PruneCommitHistory
    \/ \E limit \in Limits : PruneWithHistory(limit)

SpecHistory == InitHistory /\ [][NextHistory]_vars

\* ------------------------------------------------- names the code does not know
\* The entry points that switch on a kv.InvertedIdx or a kv.History, and
\* MakeSteps on the step lists of the domains; "unknown" is a value of the
\* enum that no case names.

InvertedIdxNames ==
    {"AccountsHistoryIdx", "StorageHistoryIdx", "CodeHistoryIdx", "CommitmentHistoryIdx",
     "LogTopicIdx", "LogAddrIdx", "TracesFromIdx", "TracesToIdx", "unknown"}

HistoryNames ==
    {"AccountsHistory", "StorageHistory", "CodeHistory", "CommitmentHistory", "unknown"}

\* AggregatorRoTx.IndexRange: default: return nil, fmt.Errorf(...).
IndexRange(name) ==
    IF name \in InvertedIdxNames \ {"unknown"} THEN "ok" ELSE "error"

\* AggregatorRoTx.IndexRange: the history of the domain, or the standalone
\* index, whose IdxRange the case of `name` calls.
IndexRangeReads(name) ==
    CASE name = "AccountsHistoryIdx" -> Accounts
      [] name = "StorageHistoryIdx" -> Storage
      [] name = "CodeHistoryIdx" -> Code
      [] name = "CommitmentHistoryIdx" -> Storage
      [] name \in {"LogTopicIdx", "LogAddrIdx", "TracesFromIdx", "TracesToIdx"} -> name
      [] OTHER -> "none"

\* AggregatorRoTx.HistorySeek: default: panic.
HistorySeek(name) ==
    IF name \in HistoryNames \ {"unknown"} THEN "ok" ELSE "panic"

\* AggregatorRoTx.HistoryRange: default: return nil, fmt.Errorf(...); the
\* switch has no case for CommitmentHistory.
HistoryRange(name) ==
    IF name \in {"AccountsHistory", "StorageHistory", "CodeHistory"} THEN "ok" ELSE "error"

\* AggregatorRoTx.DebugEFAllValuesAreInRange: default: panic.
DebugEFAllValuesAreInRange(name) ==
    IF name \in InvertedIdxNames \ {"unknown"} THEN "ok" ELSE "panic"

\* Aggregator.MakeSteps on the number of steps of each domain: an error when
\* Accounts, Storage and Code differ; else commitmentSteps[i] is read for
\* every Accounts step, which is out of range when Commitment has fewer.
MakeSteps(steps) ==
    IF steps[Accounts] # steps[Storage] \/ steps[Storage] # steps[Code] THEN "error"
    ELSE IF steps[Commitment] < steps[Accounts] THEN "panic"
    ELSE "ok"

\* What a call with a name hands back.
Outcome(op, name) ==
    CASE op = "IndexRange" -> IndexRange(name)
      [] op = "HistorySeek" -> HistorySeek(name)
      [] op = "HistoryRange" -> HistoryRange(name)
      [] op = "DebugEFAllValuesAreInRange" -> DebugEFAllValuesAreInRange(name)

NamesOf(op) ==
    IF op \in {"IndexRange", "DebugEFAllValuesAreInRange"} THEN InvertedIdxNames
    ELSE HistoryNames

\* A user calls one of the entry points through an open view.
CallByName(op, name) ==
    /\ roTx[1].open
    /\ call' = [op |-> op, arg |-> name, outcome |-> Outcome(op, name),
                reads |-> IF op = "IndexRange" THEN IndexRangeReads(name) ELSE "none"]
    /\ UNCHANGED <<hotVars, fileVars, visibleFilesMinimaxTxNum, lockVars, flagVars, thr,
                   roTx, round, pass, sweeps, squeeze, content, batch, history>>

\* A user calls MakeSteps.
CallMakeSteps(steps) ==
    /\ call' = [op |-> "MakeSteps", arg |-> steps, outcome |-> MakeSteps(steps)]
    /\ UNCHANGED <<hotVars, fileVars, visibleFilesMinimaxTxNum, lockVars, flagVars, thr,
                   roTx, round, pass, sweeps, squeeze, content, batch, history>>

NextCalls ==
    \/ \E r \in Views : UserBegin(r)
    \/ \E r \in Views : UserClose(r)
    \/ \E op \in {"IndexRange", "HistorySeek", "HistoryRange", "DebugEFAllValuesAreInRange"} :
          \E name \in NamesOf(op) : CallByName(op, name)
    \/ \E steps \in [Domains -> 0..MaxSteps] : CallMakeSteps(steps)

SpecCalls == Init /\ [][NextCalls]_vars

\* ------------------------------------------------- the key limit of the prune batches
\* pruneLimit of PruneSmallBatches and PruneSmallBatchesDb is a uint64; it is
\* kept as UintLimbs digits of base UintBase, lowest first, and multiplied and
\* divided digit by digit, so that every value of the 64 bits is exact.

UintBase == 65536

UintLimbs == 4

MaxPasses == 18

\* The uint64 of a number below UintBase * UintBase.
Uint64(n) ==
    [i \in 1..UintLimbs |-> IF i = 1 THEN n % UintBase
                            ELSE IF i = 2 THEN n \div UintBase ELSE 0]

\* What digit i hands up to the next digit in x * 10.
RECURSIVE MulCarry(_, _)
MulCarry(x, i) == IF i = 0 THEN 0 ELSE (x[i] * 10 + MulCarry(x, i - 1)) \div UintBase

\* pruneLimit *= 10: the product modulo 2^64.
Mul10(x) == [i \in 1..UintLimbs |-> (x[i] * 10 + MulCarry(x, i - 1)) % UintBase]

\* The product does not fit 64 bits.
Mul10Wraps(x) == MulCarry(x, UintLimbs) # 0

\* What the digits above digit i leave over in x / 10.
RECURSIVE DivRem(_, _)
DivRem(x, i) ==
    IF i = UintLimbs THEN 0 ELSE (DivRem(x, i + 1) * UintBase + x[i + 1]) % 10

\* pruneLimit /= 10: the integer quotient.
Div10(x) == [i \in 1..UintLimbs |-> (DivRem(x, i) * UintBase + x[i]) \div 10]

IsZero(x) == \A i \in 1..UintLimbs : x[i] = 0

\* furiousPrune := timeout > 5*time.Hour;
\* aggressivePrune := !furiousPrune && timeout >= 1*time.Minute
TimeoutKinds == {"tip", "aggressive", "furious"}

\* var pruneLimit uint64 = 1_000; if furiousPrune { pruneLimit = 1_000_000 }
FirstPruneLimit(kind) == IF kind = "furious" THEN Uint64(1000000) ELSE Uint64(1000)

\* if took < 2*time.Second { pruneLimit *= 10 }; if took > logPeriod { pruneLimit /= 10 }
AdjustPruneLimit(kind, took, x) ==
    IF kind # "aggressive" THEN x
    ELSE IF took = "under 2s" THEN Mul10(x)
    ELSE IF took = "over 30s" THEN Div10(x)
    ELSE x

\* One iteration of the loop in which Prune has returned a stat: Prune was
\* handed the limit of this iteration, and the limit is adjusted for the next.
LimitPass(took) ==
    /\ call.op \in {"PruneSmallBatches", "PruneSmallBatchesDb"}
    /\ call.passes < MaxPasses
    /\ call' = [call EXCEPT
          !.handed = call.pruneLimit,
          !.wrapped = @ \/ (call.kind = "aggressive" /\ took = "under 2s"
                               /\ Mul10Wraps(call.pruneLimit)),
          !.pruneLimit = AdjustPruneLimit(call.kind, took, @),
          !.passes = @ + 1]
    /\ UNCHANGED <<hotVars, fileVars, visibleFilesMinimaxTxNum, lockVars, flagVars, thr,
                   roTx, round, pass, sweeps, squeeze, content, batch, history>>

\* PruneSmallBatches or PruneSmallBatchesDb is called with a timeout of one
\* of the three kinds; no iteration has run.
InitLimit ==
    /\ currentTxNum = 0
    /\ hotFrom = [c \in Comps |-> 0]
    /\ dirtyFiles = NoFiles
    /\ visibleFiles = NoFiles
    /\ refcount = [c \in Comps |-> [f \in AllFiles |-> 0]]
    /\ canDelete = NoFiles
    /\ onDisk = NoFiles
    /\ handleOpen = NoFiles
    /\ visibleFilesMinimaxTxNum = 0
    /\ dirtyFilesLock = "free"
    /\ visibleFilesLock = "free"
    /\ buildingFiles = FALSE
    /\ mergingFiles = FALSE
    /\ restrictSubsetFileDeletions = TRUE
    /\ thr = [t \in {"build", "merge"} |-> Idle]
    /\ roTx = [r \in Views |-> NoView]
    /\ round = NoRound
    /\ pass = NoPass
    /\ sweeps = NoSweeps
    /\ squeeze = NoSqueeze
    /\ content = NoContent
    /\ batch = NoBatch
    /\ \E op \in {"PruneSmallBatches", "PruneSmallBatchesDb"} : \E kind \in TimeoutKinds :
          call = [op |-> op, kind |-> kind, pruneLimit |-> FirstPruneLimit(kind),
                  handed |-> FirstPruneLimit(kind), wrapped |-> FALSE, passes |-> 0]
    /\ history = NoHistory

NextLimit == \E took \in {"under 2s", "between", "over 30s"} : LimitPass(took)

SpecLimit == InitLimit /\ [][NextLimit]_vars

\* ------------------------------------------------- retiring blocks
\* canRetire, CanRetire and CanDeleteTo as functions of their arguments, and
\* the calls that apply them.

MaxMult == 2

\* Segment sizes, and block numbers at, right after and right before their
\* multiples.
SegmentSizes == {1000, 10000, 100000, 500000}

BlockNums == {s * m + o : s \in SegmentSizes, m \in 0..MaxMult, o \in {0, 1, 999}}

\* snapcfg.MergeLimit(chainName, snapType, blockFrom): the merge limit that is
\* configured for the chain and the type.
MergeLimits == {10000, 100000, 500000}

NoAnswer == [blockFrom |-> 0, blockTo |-> 0, can |-> FALSE]

\* Faulty variant of RoundedTo1K: the number is left as it is.
NotRounded(n) == n

\* (n / 1_000) * 1_000
RoundedTo1K(n) == (n \div 1000) * 1000

\* canRetire: the largest allowed segment that starts at `from` rounded down
\* and ends at or before `to` rounded down.
canRetire(from, to, mergeLimit) ==
    IF to <= from THEN NoAnswer
    ELSE LET blockFrom == RoundedTo1K(from)
             roundedTo1K == RoundedTo1K(to)
             maxJump == IF blockFrom % mergeLimit = 0 THEN mergeLimit
                        ELSE IF blockFrom % 100000 = 0 THEN 100000
                        ELSE IF blockFrom % 10000 = 0 THEN 10000
                        ELSE 1000
             jump == Min2(maxJump, roundedTo1K - blockFrom)
             blockTo == IF jump >= mergeLimit THEN blockFrom + mergeLimit
                        ELSE IF jump >= 100000 THEN blockFrom + 100000
                        ELSE IF jump >= 10000 THEN blockFrom + 10000
                        ELSE IF jump >= 1000 THEN blockFrom + 1000
                        ELSE blockFrom
         IN  [blockFrom |-> blockFrom, blockTo |-> blockTo, can |-> blockTo - blockFrom >= 1000]

\* CanRetire: nothing with 1024 blocks or fewer; else canRetire from the block
\* after the last one in the snapshots to 1024 blocks behind the current one.
CanRetire(curBlockNum, blocksInSnapshots, mergeLimit) ==
    IF curBlockNum <= 1024 THEN NoAnswer
    ELSE canRetire(blocksInSnapshots + 1, curBlockNum - 1024, mergeLimit)

\* The arguments canRetire gets in a call of `op` with the numbers a and b.
RetireArgs(op, a, b) ==
    IF op = "canRetire" THEN [from |-> a, to |-> b]
    ELSE [from |-> b + 1, to |-> IF a <= 1024 THEN 0 ELSE a - 1024]

\* The call returns.
RetireReturn ==
    /\ call.op \in {"canRetire", "CanRetire"}
    /\ call.pc = "called"
    /\ call' = [call EXCEPT
          !.pc = "returned",
          !.res = IF call.op = "canRetire" THEN canRetire(call.a, call.b, call.mergeLimit)
                  ELSE CanRetire(call.a, call.b, call.mergeLimit)]
    /\ UNCHANGED <<hotVars, fileVars, visibleFilesMinimaxTxNum, lockVars, flagVars, thr,
                   roTx, round, pass, sweeps, squeeze, content, batch, history>>

\* The caller looks at the answer.
RetireSeen ==
    /\ call.op \in {"canRetire", "CanRetire"}
    /\ call.pc = "returned"
    /\ call' = [call EXCEPT !.pc = "seen"]
    /\ UNCHANGED <<hotVars, fileVars, visibleFilesMinimaxTxNum, lockVars, flagVars, thr,
                   roTx, round, pass, sweeps, squeeze, content, batch, history>>

\* canRetire(from, to) or CanRetire(curBlockNum, blocksInSnapshots) is called.
InitRetire ==
    /\ currentTxNum = 0
    /\ hotFrom = [c \in Comps |-> 0]
    /\ dirtyFiles = NoFiles
    /\ visibleFiles = NoFiles
    /\ refcount = [c \in Comps |-> [f \in AllFiles |-> 0]]
    /\ canDelete = NoFiles
    /\ onDisk = NoFiles
    /\ handleOpen = NoFiles
    /\ visibleFilesMinimaxTxNum = 0
    /\ dirtyFilesLock = "free"
    /\ visibleFilesLock = "free"
    /\ buildingFiles = FALSE
    /\ mergingFiles = FALSE
    /\ restrictSubsetFileDeletions = TRUE
    /\ thr = [t \in {"build", "merge"} |-> Idle]
    /\ roTx = [r \in Views |-> NoView]
    /\ round = NoRound
    /\ pass = NoPass
    /\ sweeps = NoSweeps
    /\ squeeze = NoSqueeze
    /\ content = NoContent
    /\ batch = NoBatch
    /\ \E op \in {"canRetire", "CanRetire"} :
       \E a \in BlockNums : \E b \in BlockNums \cup {a + d : d \in BlockNums} :
       \E mergeLimit \in MergeLimits :
          call = [op |-> op, pc |-> "called", a |-> a, b |-> b, mergeLimit |-> mergeLimit,
                  res |-> NoAnswer]
    /\ history = NoHistory

NextRetire == RetireReturn \/ RetireSeen

SpecRetire == InitRetire /\ [][NextRetire]_vars

\* What digit i borrows from the next digit in x - y.
RECURSIVE SubBorrow(_, _, _)
SubBorrow(x, y, i) ==
    IF i = 0 THEN 0
    ELSE IF x[i] - y[i] - SubBorrow(x, y, i - 1) < 0 THEN 1 ELSE 0

\* x - y of two uint64: the difference modulo 2^64.
Sub64(x, y) ==
    [i \in 1..UintLimbs |-> (x[i] - y[i] - SubBorrow(x, y, i - 1) + UintBase) % UintBase]

\* The difference is below zero and wraps around.
Sub64Wraps(x, y) == SubBorrow(x, y, UintLimbs) = 1

\* min of two uint64.
Min64(x, y) == IF Sub64Wraps(y, x) THEN y ELSE x

\* The guard of CanDeleteTo: curBlockNum+999 < keep.
DeleteToGuard(curBlockNum) == curBlockNum + 999 < 1024

\* CanDeleteTo: 0 with nothing in the snapshots; under the guard the block
\* after the snapshots; else the smaller of that block and the hard limit
\* (curBlockNum/1_000)*1_000 - keep, a uint64 subtraction.
CanDeleteTo(curBlockNum, blocksInSnapshots) ==
    IF blocksInSnapshots = 0
    THEN [blockTo |-> Uint64(0), hardLimit |-> FALSE, wrapped |-> FALSE]
    ELSE IF DeleteToGuard(curBlockNum)
    THEN [blockTo |-> Uint64(blocksInSnapshots + 1), hardLimit |-> FALSE, wrapped |-> FALSE]
    ELSE LET rounded == Uint64(RoundedTo1K(curBlockNum))
             keep == Uint64(1024)
         IN  [blockTo |-> Min64(Sub64(rounded, keep), Uint64(blocksInSnapshots + 1)),
              hardLimit |-> TRUE,
              wrapped |-> Sub64Wraps(rounded, keep)]

\* BlockRetire.PruneAncientBlocks: canDeleteTo := CanDeleteTo(currentProgress,
\* br.blockReader.FrozenBlocks()).
CanDeleteToReturn ==
    /\ call.op = "PruneAncientBlocks"
    /\ call.pc = "called"
    /\ call' = [call EXCEPT !.pc = "canDeleteTo",
                            !.res = CanDeleteTo(call.currentProgress, call.frozenBlocks)]
    /\ UNCHANGED <<hotVars, fileVars, visibleFilesMinimaxTxNum, lockVars, flagVars, thr,
                   roTx, round, pass, sweeps, squeeze, content, batch, history>>

\* if canDeleteTo > 0: br.blockWriter.PruneBlocks(ctx, tx, canDeleteTo, limit);
\* then PruneAncientBlocks returns.
PruneAncientBlocksReturn ==
    /\ call.op = "PruneAncientBlocks"
    /\ call.pc = "canDeleteTo"
    /\ call' = [call EXCEPT !.pc = "returned", !.pruned = ~IsZero(call.res.blockTo)]
    /\ UNCHANGED <<hotVars, fileVars, visibleFilesMinimaxTxNum, lockVars, flagVars, thr,
                   roTx, round, pass, sweeps, squeeze, content, batch, history>>

\* PruneAncientBlocks is called at some stage progress, with some number of
\* blocks frozen in the snapshots.
InitDeleteTo ==
    /\ currentTxNum = 0
    /\ hotFrom = [c \in Comps |-> 0]
    /\ dirtyFiles = NoFiles
    /\ visibleFiles = NoFiles
    /\ refcount = [c \in Comps |-> [f \in AllFiles |-> 0]]
    /\ canDelete = NoFiles
    /\ onDisk = NoFiles
    /\ handleOpen = NoFiles
    /\ visibleFilesMinimaxTxNum = 0
    /\ dirtyFilesLock = "free"
    /\ visibleFilesLock = "free"
    /\ buildingFiles = FALSE
    /\ mergingFiles = FALSE
    /\ restrictSubsetFileDeletions = TRUE
    /\ thr = [t \in {"build", "merge"} |-> Idle]
    /\ roTx = [r \in Views |-> NoView]
    /\ round = NoRound
    /\ pass = NoPass
    /\ sweeps = NoSweeps
    /\ squeeze = NoSqueeze
    /\ content = NoContent
    /\ batch = NoBatch
    /\ \E currentProgress \in BlockNums \cup {24, 25, 1023, 1024, 1025, 2023, 2024} :
       \E frozenBlocks \in BlockNums :
          call = [op |-> "PruneAncientBlocks", pc |-> "called",
                  currentProgress |-> currentProgress, frozenBlocks |-> frozenBlocks,
                  res |-> [blockTo |-> Uint64(0), hardLimit |-> FALSE, wrapped |-> FALSE],
                  pruned |-> FALSE]
    /\ history = NoHistory

NextDeleteTo == CanDeleteToReturn \/ PruneAncientBlocksReturn

SpecDeleteTo == InitDeleteTo /\ [][NextDeleteTo]_vars

\* ------------------------------------------------- the stage loop of caplin
\* StageGraph.StartWithStage: the loop, the goroutine it starts for each stage
\* and the context it is called with.

MaxStageRuns == 3

StageNames == {"WaitForPeers", "ForkChoice"}

\* The loop looks the stage up: an unknown name ends the loop with an error;
\* else errch is made and the goroutine is started, which enters its select:
\* the value to send, currentStage.ActionFunc(ctx, lg, cfg, args), is
\* evaluated first.
StageLookup ==
    /\ call.op = "StartWithStage"
    /\ call.pc = "loop"
    /\ call.runs < MaxStageRuns
    /\ call' = IF call.stage \in StageNames
               THEN [call EXCEPT !.pc = "action", !.runs = @ + 1]
               ELSE [call EXCEPT !.pc = "returned", !.ret = "unknown stage"]
    /\ UNCHANGED <<hotVars, fileVars, visibleFilesMinimaxTxNum, lockVars, flagVars, thr,
                   roTx, round, pass, sweeps, squeeze, content, batch, history>>

\* The caller cancels ctx.
StageCtxCancel ==
    /\ call.op = "StartWithStage"
    /\ ~call.cancelled
    /\ call.pc # "returned"
    /\ call' = [call EXCEPT !.cancelled = TRUE]
    /\ UNCHANGED <<hotVars, fileVars, visibleFilesMinimaxTxNum, lockVars, flagVars, thr,
                   roTx, round, pass, sweeps, squeeze, content, batch, history>>

\* ActionFunc returns, with nil or an error of its own, or with the error of
\* the context when that is done; nothing makes it return.
ActionFuncReturn(err) ==
    /\ call.op = "StartWithStage"
    /\ call.pc = "action"
    /\ err = "ctx.Err" => call.cancelled
    /\ call' = [call EXCEPT !.pc = "select", !.actionErr = err]
    /\ UNCHANGED <<hotVars, fileVars, visibleFilesMinimaxTxNum, lockVars, flagVars, thr,
                   roTx, round, pass, sweeps, squeeze, content, batch, history>>

\* The cases of the goroutine's select that can proceed once the value to
\* send is there: the send, for which the loop waits in <-errch, and
\* <-ctx.Done() when the context is done.
StageSelectReady(cl) == {"send"} \cup (IF cl.cancelled THEN {"ctx.Done"} ELSE {})

\* The goroutine's select takes a case; the loop receives err from errch.
StageSelect(taken) ==
    /\ call.op = "StartWithStage"
    /\ call.pc = "select"
    /\ taken \in StageSelectReady(call)
    /\ call' = [call EXCEPT !.pc = "received",
                            !.err = IF taken = "send" THEN call.actionErr ELSE "ctx.Err"]
    /\ UNCHANGED <<hotVars, fileVars, visibleFilesMinimaxTxNum, lockVars, flagVars, thr,
                   roTx, round, pass, sweeps, squeeze, content, batch, history>>

\* The select of the loop: return ctx.Err() when the context is done; else
\* TransitionFunc names the next stage.
StageTransition(nextStage) ==
    /\ call.op = "StartWithStage"
    /\ call.pc = "received"
    /\ call' = IF call.cancelled
               THEN [call EXCEPT !.pc = "returned", !.ret = "ctx.Err"]
               ELSE [call EXCEPT !.pc = "loop", !.stage = nextStage]
    /\ UNCHANGED <<hotVars, fileVars, visibleFilesMinimaxTxNum, lockVars, flagVars, thr,
                   roTx, round, pass, sweeps, squeeze, content, batch, history>>

\* StartWithStage is called with a start stage.
InitStages ==
    /\ currentTxNum = 0
    /\ hotFrom = [c \in Comps |-> 0]
    /\ dirtyFiles = NoFiles
    /\ visibleFiles = NoFiles
    /\ refcount = [c \in Comps |-> [f \in AllFiles |-> 0]]
    /\ canDelete = NoFiles
    /\ onDisk = NoFiles
    /\ handleOpen = NoFiles
    /\ visibleFilesMinimaxTxNum = 0
    /\ dirtyFilesLock = "free"
    /\ visibleFilesLock = "free"
    /\ buildingFiles = FALSE
    /\ mergingFiles = FALSE
    /\ restrictSubsetFileDeletions = TRUE
    /\ thr = [t \in {"build", "merge"} |-> Idle]
    /\ roTx = [r \in Views |-> NoView]
    /\ round = NoRound
    /\ pass = NoPass
    /\ sweeps = NoSweeps
    /\ squeeze = NoSqueeze
    /\ content = NoContent
    /\ batch = NoBatch
    /\ \E startStage \in StageNames \cup {"unknown"} :
          call = [op |-> "StartWithStage", pc |-> "loop", stage |-> startStage, runs |-> 0,
                  cancelled |-> FALSE, actionErr |-> "none", err |-> "none", ret |-> "none"]
    /\ history = NoHistory

NextStages ==
    \/ StageLookup
    \/ StageCtxCancel
    \/ \E err \in {"nil", "error", "ctx.Err"} : ActionFuncReturn(err)
    \/ \E taken \in {"send", "ctx.Done"} : StageSelect(taken)
    \/ \E nextStage \in StageNames \cup {"unknown"} : StageTransition(nextStage)

SpecStages == InitStages /\ [][NextStages]_vars

\* The Go scheduler runs the loop and the goroutine whenever they can take a
\* step; whether ActionFunc returns is up to the stage.
SpecStagesLive ==
    /\ SpecStages
    /\ WF_vars(StageLookup)
    /\ WF_vars(\E taken \in {"send", "ctx.Done"} : StageSelect(taken))
    /\ WF_vars(\E nextStage \in StageNames \cup {"unknown"} : StageTransition(nextStage))

\* ------------------------------------------------- the entity store of heimdall
\* mdbxEntityStore: the entity table, keyed by id, and blockNumToIdIndex, which
\* leads from a block number to the id of the entity whose range holds it.

MaxId == 2

SpanLen == 2

EntityIds == 0..MaxId

\* entity.BlockNumRange() of the entity with this id.
BlockNumRange(id) == (id * SpanLen)..(id * SpanLen + SpanLen - 1)

BlockNumbers == UNION {BlockNumRange(id) : id \in EntityIds}

\* blockNumToIdIndex.Lookup: the id that was put for the block, 0 without one.
Lookup(index, blockNum) == IF blockNum \in DOMAIN index THEN index[blockNum] ELSE 0

\* blockNumToIdIndex.Put(ctx, entity.BlockNumRange(), id)
IndexPut(index, range, id) ==
    [b \in DOMAIN index \cup range |-> IF b \in range THEN id ELSE index[b]]

\* GetEntity: the row of the table, a zero value without one.
GetEntity(table, id) ==
    IF id \in table THEN [found |-> TRUE, id |-> id] ELSE [found |-> FALSE, id |-> 0]

\* FindByBlockNum: Lookup; id == 0 counts as not found; else GetEntity(id).
FindByBlockNum(table, index, blockNum) ==
    LET id == Lookup(index, blockNum)
    IN  IF id = 0 THEN [found |-> FALSE, id |-> 0] ELSE GetEntity(table, id)

\* PutEntity up to tx.Commit(): a failure of BeginRw, json.Marshal, tx.Put or
\* Commit leaves the table as it was (defer tx.Rollback()).
PutEntityTable(table, id, fails) == IF fails = "tx" THEN table ELSE table \cup {id}

\* PutEntity after the commit: return s.blockNumToIdIndex.Put(...).
PutEntityIndex(index, id, fails) ==
    IF fails = "none" THEN IndexPut(index, BlockNumRange(id), id) ELSE index

\* PutEntity(ctx, id, entity), failing in its transaction, in the index, or
\* not at all.
PutEntity(id, fails) ==
    /\ call.op = "EntityStore"
    /\ call' = [call EXCEPT !.table = PutEntityTable(@, id, fails),
                            !.index = PutEntityIndex(@, id, fails),
                            !.last = [id |-> id, ret |-> IF fails = "none" THEN "nil" ELSE "error"]]
    /\ UNCHANGED <<hotVars, fileVars, visibleFilesMinimaxTxNum, lockVars, flagVars, thr,
                   roTx, round, pass, sweeps, squeeze, content, batch, history>>

\* A store that Prepare has opened: the index was built from the rows of the
\* table.
InitEntity ==
    /\ currentTxNum = 0
    /\ hotFrom = [c \in Comps |-> 0]
    /\ dirtyFiles = NoFiles
    /\ visibleFiles = NoFiles
    /\ refcount = [c \in Comps |-> [f \in AllFiles |-> 0]]
    /\ canDelete = NoFiles
    /\ onDisk = NoFiles
    /\ handleOpen = NoFiles
    /\ visibleFilesMinimaxTxNum = 0
    /\ dirtyFilesLock = "free"
    /\ visibleFilesLock = "free"
    /\ buildingFiles = FALSE
    /\ mergingFiles = FALSE
    /\ restrictSubsetFileDeletions = TRUE
    /\ thr = [t \in {"build", "merge"} |-> Idle]
    /\ roTx = [r \in Views |-> NoView]
    /\ round = NoRound
    /\ pass = NoPass
    /\ sweeps = NoSweeps
    /\ squeeze = NoSqueeze
    /\ content = NoContent
    /\ batch = NoBatch
    /\ \E table \in SUBSET (EntityIds \ {0}) :
          call = [op |-> "EntityStore", table |-> table,
                  index |-> [b \in UNION {BlockNumRange(id) : id \in table} |->
                                CHOOSE id \in table : b \in BlockNumRange(id)],
                  last |-> [id |-> 0, ret |-> "none"]]
    /\ history = NoHistory

NextEntity == \E id \in EntityIds : \E fails \in {"none", "tx", "index"} : PutEntity(id, fails)

SpecEntity == InitEntity /\ [][NextEntity]_vars

\* ------------------------------------------------- BlockRetire.maxScheduledBlock
\* The callers of RetireBlocksInBackground and RetireBlocks and the goroutine
\* of RetireBlocksInBackground, each at its own place in
\* if maxBlockNum > br.maxScheduledBlock.Load() { br.maxScheduledBlock.Store(maxBlockNum) }.

MaxScheduled == 3

RetireThreads == Callers \cup {0}

ThreadIdle == [pc |-> "idle", fn |-> "none", maxBlockNum |-> 0]

\* The condition of the if: maxBlockNum > br.maxScheduledBlock.Load().
MustStore(maxBlockNum, loaded) == maxBlockNum > loaded

\* Where a thread goes after the if: the caller of RetireBlocksInBackground
\* to the CAS on br.working, RetireBlocks to its loop.
AfterStore(fn) == IF fn = "RetireBlocksInBackground" THEN "cas" ELSE "loop"

\* Caller k calls fn with maxBlockNum and evaluates the condition of the if.
ScheduleLoad(k, fn, maxBlockNum) ==
    /\ call.op = "BlockRetire"
    /\ call.thread[k].pc = "idle"
    /\ call' = [call EXCEPT
          !.thread[k] = [pc |-> IF MustStore(maxBlockNum, call.maxScheduledBlock)
                                THEN "store" ELSE AfterStore(fn),
                         fn |-> fn, maxBlockNum |-> maxBlockNum],
          !.largest = IF maxBlockNum > @ THEN maxBlockNum ELSE @]
    /\ UNCHANGED <<hotVars, fileVars, visibleFilesMinimaxTxNum, lockVars, flagVars, thr,
                   roTx, round, pass, sweeps, squeeze, content, batch, history>>

\* The goroutine of RetireBlocksInBackground calls RetireBlocks, which
\* evaluates the condition of the if.
ScheduleLoadInGoroutine ==
    /\ call.op = "BlockRetire"
    /\ call.thread[0].pc = "go"
    /\ call' = [call EXCEPT
          !.thread[0].pc = IF MustStore(call.thread[0].maxBlockNum, call.maxScheduledBlock)
                           THEN "store" ELSE "loop",
          !.thread[0].fn = "RetireBlocks"]
    /\ UNCHANGED <<hotVars, fileVars, visibleFilesMinimaxTxNum, lockVars, flagVars, thr,
                   roTx, round, pass, sweeps, squeeze, content, batch, history>>

\* br.maxScheduledBlock.Store(maxBlockNum)
ScheduleStore(k) ==
    /\ call.op = "BlockRetire"
    /\ call.thread[k].pc = "store"
    /\ call' = [call EXCEPT !.maxScheduledBlock = call.thread[k].maxBlockNum,
                            !.thread[k].pc = AfterStore(call.thread[k].fn)]
    /\ UNCHANGED <<hotVars, fileVars, visibleFilesMinimaxTxNum, lockVars, flagVars, thr,
                   roTx, round, pass, sweeps, squeeze, content, batch, history>>

\* RetireBlocksInBackground: br.working.CompareAndSwap(false, true); the
\* goroutine starts when the CAS wins; the call returns.
ScheduleCas(k) ==
    /\ call.op = "BlockRetire"
    /\ k # 0
    /\ call.thread[k].pc = "cas"
    /\ call' = IF call.working
               THEN [call EXCEPT !.thread[k] = ThreadIdle]
               ELSE [call EXCEPT !.thread[k] = ThreadIdle, !.working = TRUE,
                                 !.thread[0] = [pc |-> "go", fn |-> "goroutine",
                                                maxBlockNum |-> call.thread[k].maxBlockNum]]
    /\ UNCHANGED <<hotVars, fileVars, visibleFilesMinimaxTxNum, lockVars, flagVars, thr,
                   roTx, round, pass, sweeps, squeeze, content, batch, history>>

\* RetireBlocks returns after its loop; in the goroutine, defer br.working.Store(false).
ScheduleReturn(k) ==
    /\ call.op = "BlockRetire"
    /\ call.thread[k].pc = "loop"
    /\ call' = [call EXCEPT !.thread[k] = ThreadIdle,
                            !.working = IF k = 0 THEN FALSE ELSE @]
    /\ UNCHANGED <<hotVars, fileVars, visibleFilesMinimaxTxNum, lockVars, flagVars, thr,
                   roTx, round, pass, sweeps, squeeze, content, batch, history>>

\* A fresh BlockRetire: nothing is scheduled and no one is inside a call.
InitSchedule ==
    /\ currentTxNum = 0
    /\ hotFrom = [c \in Comps |-> 0]
    /\ dirtyFiles = NoFiles
    /\ visibleFiles = NoFiles
    /\ refcount = [c \in Comps |-> [f \in AllFiles |-> 0]]
    /\ canDelete = NoFiles
    /\ onDisk = NoFiles
    /\ handleOpen = NoFiles
    /\ visibleFilesMinimaxTxNum = 0
    /\ dirtyFilesLock = "free"
    /\ visibleFilesLock = "free"
    /\ buildingFiles = FALSE
    /\ mergingFiles = FALSE
    /\ restrictSubsetFileDeletions = TRUE
    /\ thr = [t \in {"build", "merge"} |-> Idle]
    /\ roTx = [r \in Views |-> NoView]
    /\ round = NoRound
    /\ pass = NoPass
    /\ sweeps = NoSweeps
    /\ squeeze = NoSqueeze
    /\ content = NoContent
    /\ batch = NoBatch
    /\ call = [op |-> "BlockRetire", maxScheduledBlock |-> 0, largest |-> 0, working |-> FALSE,
               thread |-> [k \in RetireThreads |-> ThreadIdle]]
    /\ history = NoHistory

NextSchedule ==
    \/ \E k \in Callers : \E fn \in {"RetireBlocksInBackground", "RetireBlocks"} :
          \E maxBlockNum \in 1..MaxScheduled : ScheduleLoad(k, fn, maxBlockNum)
    \/ ScheduleLoadInGoroutine
    \/ \E k \in RetireThreads : ScheduleStore(k)
    \/ \E k \in Callers : ScheduleCas(k)
    \/ \E k \in RetireThreads : ScheduleReturn(k)

SpecSchedule == InitSchedule /\ [][NextSchedule]_vars

\* ------------------------------------------------------------ properties

\* Every view that is open: the users' and the goroutines' own.
OpenViews ==
    {roTx[r] : r \in {x \in Views : roTx[x].open}}
    \cup {thr[t].tmp : t \in {x \in {"build", "merge"} : thr[x].tmp.open}}
    \cup {thr[t].aggTx : t \in {x \in {"build", "merge"} : thr[x].aggTx.open}}

Covers(files, txNum) == \E f \in files : f[1] <= txNum /\ txNum < f[2]

C2_NoGap ==
    \A c \in Domains : \A txNum \in 0..(currentTxNum - 1) :
        Covers(visibleFiles[c], txNum) \/ txNum >= hotFrom[c]

\* C2 witness: the hot store is pruned, a merged file is visible and txNums beyond
\* the files are in the hot store only.
C2_Witness ==
    \E c \in Domains :
        /\ hotFrom[c] > 0
        /\ \E m \in visibleFiles[c] : m[2] - m[1] > StepSize
        /\ currentTxNum > EndTxNum(visibleFiles[c])

Overlap(f, g) == f[1] < g[2] /\ g[1] < f[2]

MergeRecalculated ==
    thr["merge"].pc \in {"minimaxBegin", "minimaxStore", "minimaxClose", "cleanBegin",
                         "clean", "cleanClose"}

\* C3: within one component no two visible files overlap, and once the merge
\* pass has recomputed the visible set its merged file is visible and none of
\* the files it replaced is.
C3_OneAuthoritativeFile ==
    /\ \A c \in Comps : \A f, g \in visibleFiles[c] : f # g => ~Overlap(f, g)
    /\ MergeRecalculated =>
          \A c \in Comps : thr["merge"].r[c] # NoRange =>
              /\ thr["merge"].r[c] \in visibleFiles[c]
              /\ \A f \in visibleFiles[c] : ~isSubsetOf(f, thr["merge"].r[c])

\* C3 witness: the dirty set holds a merged file together with the files it
\* replaced, and the recomputed visible set shows the merged file.
C3_Witness ==
    /\ MergeRecalculated
    /\ \E c \in Comps : \E f \in dirtyFiles[c] :
          /\ thr["merge"].r[c] \in visibleFiles[c]
          /\ isSubsetOf(f, thr["merge"].r[c])

\* C4: no view pins the files of a build round or a merge round for some
\* components and not for the others: its components hold the same ranges.
C4_AtomicTransition ==
    \A v \in OpenViews : \A c1, c2 \in Comps : v.files[c1] = v.files[c2]

\* The minimum end txNum over the visible files of the four domains.
FilesMinimax == minimaxTxNumInDomainFiles(visibleFiles)

\* C10: no component has lost a hot-store row at or above the minimum end
\* txNum of the visible files of Accounts, Code, Storage and Commitment.
C10_PruneBoundary ==
    \A c \in Comps : hotFrom[c] <= FilesMinimax

\* C10 witness: Prune has removed every row below the boundary and rows above
\* it remain.
C10_Witness ==
    \E c \in Comps :
        /\ hotFrom[c] > 0
        /\ hotFrom[c] = FilesMinimax
        /\ hotFrom[c] < currentTxNum

\* Some task of the round stored the file of the step.
StepFileOf(files) == {c \in Comps : StepFile(round.step) \in files[c]}

\* C5: when collate or build fails for a component the round fails as a whole:
\* no component has the file of that step in its dirty or visible set, a step
\* is in the dirty sets of all components or of none, and once buildFiles has
\* returned the error every file built in the round is closed and removed.
C5_RoundFailsAsAWhole ==
    /\ round.pc \in {"run", "failed"} /\ round.err =>
          StepFileOf(dirtyFiles) = {} /\ StepFileOf(visibleFiles) = {}
    /\ \A f \in AllFiles : \A c1, c2 \in Comps : f \in dirtyFiles[c1] => f \in dirtyFiles[c2]
    /\ round.pc = "failed" => StepFileOf(onDisk) = {} /\ StepFileOf(handleOpen) = {}

\* C5 witness: the round has failed after some domain and some index had built
\* and stored their files, in a folder that holds the files of an earlier step.
C5_Witness ==
    /\ round.pc = "failed"
    /\ round.step > 0
    /\ \E c \in Domains : round.task[c] = "stored"
    /\ round.task[LogAddrIdx] = "stored"
    /\ \E c \in Comps : round.task[c] = "failed"

\* The pass merges Accounts, Storage and Commitment for the same range.
SameRangeMerged ==
    /\ pass.r[Commitment] # NoRange
    /\ pass.r[Accounts] = pass.r[Commitment]
    /\ pass.r[Storage] = pass.r[Commitment]

\* C8: in a merge pass the merge of Commitment has not started while the merge
\* of Accounts or of Storage of the same pass is still to start or running.
C8_CommitmentAfterAccStorage ==
    pass.task[Commitment] \in {"merging", "done", "failed"} =>
        \A c \in AccStorage : pass.task[c] \in {"skip", "done", "failed"}

\* C8 witness: with two workers the Commitment task was parked in Wait while
\* Accounts or Storage was merging, and merges now that both are done.
C8_Witness ==
    /\ pass.task[Commitment] = "merging"
    /\ pass.blocked
    /\ pass.workers >= 2
    /\ \A c \in AccStorage : pass.task[c] = "done"

\* C9: once Accounts, Storage and Commitment are merged for the same range, the
\* references of the merged Commitment file are into the merged Accounts and
\* Storage files, which are visible, and into no file the merge retires.
C9_CommitmentConsistency ==
    pass.pc \in {"integrated", "cleaned"} /\ SameRangeMerged =>
        /\ pass.refs.acc = {pass.mf[Accounts]}
        /\ pass.refs.sto = {pass.mf[Storage]}
        /\ pass.refs.acc \subseteq visibleFiles[Accounts] \ canDelete[Accounts]
        /\ pass.refs.sto \subseteq visibleFiles[Storage] \ canDelete[Storage]
        /\ pass.refs.acc \cap Inputs(Accounts, pass.r) = {}
        /\ pass.refs.sto \cap Inputs(Storage, pass.r) = {}

\* C9 witness: the three domains are merged for the same range, the inputs are
\* retired and gone from disk, and the Commitment task had to wait for the
\* merged files.
C9_Witness ==
    /\ pass.pc = "cleaned"
    /\ SameRangeMerged
    /\ pass.blocked
    /\ StepFile(0) \in canDelete[Accounts] /\ StepFile(0) \notin onDisk[Accounts]
    /\ StepFile(0) \in canDelete[Storage] /\ StepFile(0) \notin onDisk[Storage]
    /\ pass.refs.acc = {TwoStepsMerged}

\* The sweeps that run: goroutines and callers inside a blocking entry point.
BuildSweeps == sweeps.g["buildSema"] + sweeps.g["buildLoop"] + sweeps.g["missedIdx"]
MergeSweeps ==
    sweeps.g["merge"] + Cardinality({k \in Callers : sweeps.caller[k] = "mergeLoop"})
OptionalSweeps ==
    sweeps.g["optional"] + Cardinality({k \in Callers : sweeps.caller[k] = "optional"})

\* C7: at any moment at most one build sweep, at most one merge sweep and at
\* most one optional-index sweep runs, whatever entry points are called.
C7_OneSweepOfEachKind ==
    BuildSweeps <= 1 /\ MergeSweeps <= 1 /\ OptionalSweeps <= 1

\* C6: no file is off the disk while its handle is open or a view pins it.
C6_NoRemovalWhileOpen ==
    \A c \in Comps : \A f \in AllFiles :
        f \notin onDisk[c] => f \notin handleOpen[c] /\ refcount[c][f] = 0

\* C11: the pruning horizon the Aggregator publishes never moves back.
C11_HorizonMonotone ==
    [][visibleFilesMinimaxTxNum' >= visibleFilesMinimaxTxNum]_vars

C13_MergeKeepsAnswers ==
    content.pc = "merged" =>
        /\ content.out[1].range = <<content.in[2].range[1], content.in[1].range[2]>>
        /\ \A key \in Keys :
              \A ts \in content.out[1].range[1]..(content.out[1].range[2] - 1) :
                  DomainGetAsOf(content.out, key, ts) = DomainGetAsOf(content.in, key, ts)

\* C13 witness: a merged file where some key has rows in both input files and
\* another key is answered out of the older file for a txNum of the newer one.
C13_Witness ==
    /\ content.pc = "merged"
    /\ \E key \in Keys :
          /\ \E i \in 1..Len(content.in[1].rows) : content.in[1].rows[i][1] = key
          /\ \E i \in 1..Len(content.in[2].rows) : content.in[2].rows[i][1] = key
    /\ \E key \in Keys :
          /\ \A i \in 1..Len(content.in[1].rows) : content.in[1].rows[i][1] # key
          /\ DomainGetAsOf(content.out, key, content.in[1].range[1]).found

\* The merge goroutine is in a successful pass, past the recalculation of the
\* visible files that follows the integration of the merged files.
MergePassDone ==
    \/ MergeRecalculated
    \/ thr["merge"].pc = "closeAgg" /\ thr["merge"].more

\* C14: Files() of a view opened after a merge pass has succeeded lists, for
\* every component the pass merged, the merged file and none of the files the
\* merged file replaced.
C14_FilesListMerged ==
    [][\A r \in Views :
          (~roTx[r].open /\ roTx'[r].open /\ MergePassDone) =>
              \A c \in Comps : thr["merge"].r[c] # NoRange =>
                  /\ <<c, thr["merge"].r[c]>> \in Files(roTx'[r])
                  /\ \A f \in AllFiles :
                        isSubsetOf(f, thr["merge"].r[c]) => <<c, f>> \notin Files(roTx'[r])]_vars

\* C14 witness: a view opened after the pass lists the merged file while the
\* files it replaced are still in the dirty set.
C14_Witness ==
    /\ MergePassDone
    /\ \E r \in Views : \E c \in Comps : \E f \in dirtyFiles[c] :
          /\ roTx[r].open
          /\ <<c, thr["merge"].r[c]>> \in Files(roTx[r])
          /\ isSubsetOf(f, thr["merge"].r[c])

\* buildFiles(step) of the build goroutine returns: the view of the last
\* recalculation is closed and the loop goes on.
BuildFilesReturns == thr["build"].pc = "minimaxClose" /\ thr'["build"].pc = "loop"

\* Apart from the file of step s, the files of component c end where step s begins.
CoveredUpTo(c, s) ==
    EndTxNum(dirtyFiles[c] \ {StepFile(s)}) = firstTxNumOfStep(s, StepSize)

\* C15: when buildFiles(s) returns without error on files that covered the
\* steps [0,s), every domain has exactly one file that covers step s, the file
\* [s,s+1), and the pruning horizon is the first txNum of step s+1.
C15_BuildFilesAdvances ==
    [][(BuildFilesReturns /\ \A c \in Domains : CoveredUpTo(c, thr["build"].step)) =>
          /\ \A c \in Domains :
                {f \in dirtyFiles'[c] : Overlap(f, StepFile(thr["build"].step))}
                   = {StepFile(thr["build"].step)}
          /\ visibleFilesMinimaxTxNum' =
                firstTxNumOfStep(thr["build"].step + 1, StepSize)]_vars

\* Every component has the file of step s in its dirty set.
StepBuilt(s) == \A c \in Comps : StepFile(s) \in dirtyFiles[c]

\* The sweep has left its loop on a build error, or has returned on a cancellation.
SweepStopped == thr["build"].pc \in {"afterLoop", "idle"}

MergeLoopReturns == thr["merge"].pc = "closeAgg" /\ thr'["merge"].pc = "idle"

\* C17: MergeLoop returns without error only out of a pass that found no
\* range to merge, a pass that merged something is followed by another pass,
\* and on files nothing else adds to MergeLoop returns in the end.
C17_MergeLoopEnds ==
    /\ [][(MergeLoopReturns /\ ~thr["merge"].err) => ~RangesAny(thr["merge"].r)]_vars
    /\ [][(thr["merge"].pc = "closeAgg" /\ thr["merge"].more) =>
             thr'["merge"].pc \in {"closeAgg", "begin"}]_vars
    /\ <>(thr["merge"].pc = "idle")

\* C17 witness: a second pass, after a pass that merged, has found nothing and
\* MergeLoop is about to return without error.
C17_Witness ==
    /\ thr["merge"].pc = "closeAgg"
    /\ ~thr["merge"].more
    /\ ~thr["merge"].err
    /\ ~RangesAny(thr["merge"].r)
    /\ \E c \in Comps : \E f \in visibleFiles[c] :
          /\ isSubsetOf(StepFile(0), f)
          /\ StepFile(0) \notin dirtyFiles[c]

\* Caller k calls an entry point that asks for a build sweep, a merge sweep,
\* an optional-index sweep.
AsksForBuild(k) ==
    \/ CallBuildFilesInBackground(k)
    \/ CallBuildFiles(k)
    \/ CallBuildMissedIndicesInBackground(k)

AsksForMerge(k) == CallMergeLoop(k)

AsksForOptional(k) ==
    \/ CallBuildOptionalMissedIndices(k)
    \/ CallBuildOptionalMissedIndicesInBackground(k)

\* The call of k has returned and has started nothing.
NoOpFor(k) == sweeps'.caller[k] = "idle" /\ sweeps'.g = sweeps.g

\* C19: a call that asks for a sweep while a sweep of that kind runs returns
\* at once and starts nothing: the caller is not inside the entry point after
\* the step, no goroutine is added, and a channel handed back is closed.
C19_NoOpWhileActive ==
    [][\A k \in Callers :
          /\ (BuildSweeps > 0 /\ AsksForBuild(k)) =>
                NoOpFor(k) /\ sweeps'.fin[k] # "open"
          /\ (MergeSweeps > 0 /\ AsksForMerge(k)) => NoOpFor(k)
          /\ (OptionalSweeps > 0 /\ AsksForOptional(k)) => NoOpFor(k)]_vars

\* C20: every completion channel BuildFilesInBackground hands back is closed
\* in the end.
C20_FinClosed ==
    \A k \in Callers : (sweeps.fin[k] = "open") ~> (sweeps.fin[k] = "closed")

\* C18: an iteration of PruneSmallBatches or PruneSmallBatchesDb that runs
\* when the time budget is used up or the context is cancelled, or whose Prune
\* pass prunes nothing, is the last one: the call returns.
C18_BatchStops ==
    [][((\E limit \in Limits, logTick \in BOOLEAN : BatchPass(limit, logTick))
          /\ (batch.timedOut \/ batch.ctxDone \/ batch'.last \in {"nil", "nothing"}))
         => batch'.pc = "returned"]_vars

\* C21: a cancelled context only makes a sweep stop: no call that waits for a
\* sweep or runs one (BuildFiles, MergeLoop, BuildOptionalMissedIndices) hands
\* the context's error back to its caller.
C21_CancelNotSurfaced == sweeps.ret # "ctx.Err"

\* SqueezeCommitmentFiles has returned the error of a file it could not rewrite.
SqueezeAborted == squeeze.pc = "failed" /\ squeeze.ci <= Len(squeeze.commitFiles)

\* C22: when the transformation of a value fails, SqueezeCommitmentFiles has
\* removed nothing: every commitment file it started from is still on the
\* disk, the files it had already rewritten included.
C22_AbortKeepsOriginals ==
    SqueezeAborted =>
        /\ SeqToSet(squeeze.commitFiles) \subseteq onDisk[Commitment]
        /\ onDisk = dirtyFiles

\* C22 witness: the second commitment file fails after the first was rewritten
\* and noted as obsolete.
C22_Witness ==
    /\ SqueezeAborted
    /\ squeeze.ci = 2
    /\ squeeze.obsoleteFiles = {squeeze.commitFiles[1]}

\* C29: from the start of SqueezeCommitmentFiles to its end every commitment
\* file it works on exists under its original name: the rewritten file is
\* renamed over the original before anything is removed.
C29_OriginalNameAlwaysThere ==
    squeeze.pc # "idle" => SeqToSet(squeeze.commitFiles) \subseteq onDisk[Commitment]

\* A file of one step.
SingleStep(f) == f[2] - f[1] = StepSize

Pins(c, f) ==
    Cardinality({r \in Views : roTx[r].open /\ f \in roTx[r].files[c]})
    + Cardinality({t \in {"build", "merge"} : thr[t].tmp.open /\ f \in thr[t].tmp.files[c]})
    + Cardinality({t \in {"build", "merge"} : thr[t].aggTx.open /\ f \in thr[t].aggTx.files[c]})

\* C24: Close may be called any number of times. Every file's reference count
\* is the number of open handles that pin it, so the first Close has released
\* each component handle once and no more; a Close on a handle that is closed
\* already changes no file, no reference count and no handle.
C24_CloseOnce ==
    /\ [](\A c \in Comps : \A f \in AllFiles : refcount[c][f] = Pins(c, f))
    /\ [][\A r \in Views : (~roTx[r].open /\ Close(r)) => UNCHANGED <<fileVars, roTx>>]_vars

\* C24 witness: Close was called on a handle that was closed before and still
\* holds its component handles, while another handle pins one of its files.
C24_Witness ==
    /\ call.op = "Close" /\ call.closedBefore
    /\ ~roTx[call.view].open
    /\ \E c \in Comps : \E f \in roTx[call.view].files[c] : Pins(c, f) >= 1

\* C25: with keepRecentTxnInDB > 0 a prune of the Commitment history, whose
\* rows never go into files, leaves the most recent keepRecentTxnInDB txNums
\* in the hot store, also when the files of the domain cover them.
C25_KeepRecentFloor ==
    [][(history'.from > history.from /\ history.keepRecentTxnInDB > 0)
         => history'.from + history.keepRecentTxnInDB <= currentTxNum - 1]_vars

\* C25 witness: the files cover every txNum written, keepRecentTxnInDB is not
\* zero, and a prune has removed all rows but the recent ones.
C25_Witness ==
    /\ history.pc = "run"
    /\ history.keepRecentTxnInDB > 0
    /\ history.from > 0
    /\ history.from + history.keepRecentTxnInDB = currentTxNum - 1
    /\ visibleFilesMinimaxTxNum = currentTxNum

\* The last call was handed a name the code does not know, or step lists of
\* different lengths.
InvariantError ==
    \/ /\ call.op \in {"IndexRange", "HistorySeek", "HistoryRange", "DebugEFAllValuesAreInRange"}
       /\ call.arg = "unknown"
    \/ /\ call.op = "MakeSteps"
       /\ \E c, d \in Domains : call.arg[c] # call.arg[d]

\* C26: a call with an unknown enum value, or with step counts that differ
\* between the domains, panics; it does not hand back an error value or a result.
C26_InvariantErrorsPanic == InvariantError => call.outcome = "panic"

\* C27: a guard flag is set only while a sweep of its kind runs: when the
\* goroutines of a build, merge or optional-index sweep have returned, on
\* whatever path, the flag is clear and the next request wins its CAS.
C27_FlagsCleared ==
    /\ (sweeps.g["buildSema"] + sweeps.g["buildLoop"] + sweeps.g["missedIdx"] = 0)
          => ~buildingFiles
    /\ sweeps.g["merge"] = 0 => ~mergingFiles
    /\ OptionalSweeps = 0 => ~sweeps.buildingOptionalIndices

\* C27 witness: a build sweep has ended through the failure of the semaphore
\* after a cancellation (its channel was left open), no build goroutine is
\* left, and buildingFiles is clear.
C27_Witness ==
    /\ sweeps.pc = "run"
    /\ sweeps.cancelled
    /\ \E k \in Callers : /\ sweeps.fin[k] = "open"
                          /\ sweeps.holds["build"] # k
                          /\ sweeps.holds["merge"] # k
    /\ sweeps.g["buildSema"] + sweeps.g["buildLoop"] + sweeps.g["missedIdx"] = 0
    /\ ~buildingFiles

\* C28: the dirty set, the visible set and the deletion marks of a component
\* change, and a file leaves the disk, only when every merge task of the pass
\* has ended and none has failed: a pass with a failed merge integrates
\* nothing and retires nothing.
C28_IntegrateAfterAllMerges ==
    [][(\/ dirtyFiles' # dirtyFiles
        \/ visibleFiles' # visibleFiles
        \/ canDelete' # canDelete
        \/ \E c \in Comps : ~(onDisk[c] \subseteq onDisk'[c]))
         => (~pass.err /\ \A c \in Comps : pass.task[c] \in {"skip", "done"})]_vars

\* C28 witness: the pass has failed after the merge of one component had
\* succeeded; the merged file is not dirty and the step files are.
C28_Witness ==
    /\ pass.pc = "failed"
    /\ \E c \in Comps :
          /\ pass.mf[c] = TwoStepsMerged
          /\ TwoStepsMerged \notin dirtyFiles[c] \cup visibleFiles[c]
          /\ TwoSteps \subseteq dirtyFiles[c] \cap onDisk[c]
          /\ canDelete[c] = {}

\* C30: while the build sweep or the merge sweep of the Aggregator runs the
\* Aggregator holds the snapshot-build semaphore, and the retirement of
\* blocks, which needs the same semaphore, does not run.
C30_SemaCoversBuildAndMerge ==
    (sweeps.g["buildLoop"] + sweeps.g["merge"] > 0)
        => (sweeps.sema = "aggregator" /\ sweeps.br # "retire")

\* C31: at the step in which Aggregator.Close returns no goroutine started by
\* the Aggregator is running.
C31_CloseWaitsForGoroutines ==
    [][(sweeps.close = "closeDirtyFiles" /\ sweeps'.close = "returned")
          => WgCounter(sweeps) = 0]_vars

\* C32: whenever neither goroutine is inside recalcVisibleFiles or
\* recalcVisibleFilesMinimaxTxNum, the published visibleFilesMinimaxTxNum is
\* the minimum end txNum of the visible files of Accounts, Code, Storage and
\* Commitment.
C32_MinimaxMatchesVisible ==
    (\A t \in {"build", "merge"} : thr[t].pc \notin {"recalc", "minimaxBegin", "minimaxStore"})
        => visibleFilesMinimaxTxNum = minimaxTxNumInDomainFiles(visibleFiles)

\* C33: mergeFiles returns in every behaviour, with any number of merge
\* workers from 1 up and any set of components that have a range: g.Wait()
\* comes back and the pass leaves its running phase.
C33_MergeFilesTerminates == <>(pass.pc # "run")

\* C33 witness: mergeFiles has returned from a pass in which the Commitment
\* task was blocked on the barrier and the Accounts or the Storage task failed.
C33_Witness ==
    /\ pass.pc = "failed"
    /\ pass.blocked
    /\ pass.task[Commitment] \in {"done", "failed"}
    /\ \E c \in AccStorage : pass.task[c] = "failed"

\* C33 witness, one worker: mergeFiles has returned from a pass of a single
\* worker in which Accounts, Storage and Commitment each had a range.
C33_WitnessOneWorker ==
    /\ pass.pc # "run"
    /\ pass.workers = 1
    /\ \A c \in {Accounts, Storage, Commitment} : pass.task[c] \in {"done", "failed"}

\* C34: the key limit PruneSmallBatches and PruneSmallBatchesDb hand to Prune
\* is never 0 and no multiplication by 10 has left the 64 bits.
C34_LimitPositiveBounded ==
    call.op \in {"PruneSmallBatches", "PruneSmallBatchesDb"}
        => (~IsZero(call.handed) /\ ~call.wrapped)

\* The domain or standalone index an inverted-index name designates.
DesignatedBy(name) ==
    CASE name = "AccountsHistoryIdx" -> Accounts
      [] name = "StorageHistoryIdx" -> Storage
      [] name = "CodeHistoryIdx" -> Code
      [] name = "CommitmentHistoryIdx" -> Commitment
      [] OTHER -> name

\* C35: IndexRange with a known name reads the history index of the domain
\* the name designates, or the standalone index of that name.
C35_IndexRangeReadsOwnIndex ==
    (call.op = "IndexRange" /\ call.outcome = "ok") => call.reads = DesignatedBy(call.arg)

C37_HardLimitNoWrap ==
    (call.op = "PruneAncientBlocks" /\ call.res.hardLimit) => ~call.res.wrapped

\* C38: once ctx is cancelled while a stage's ActionFunc runs, StartWithStage
\* returns, whether or not ActionFunc returns.
C38_ExitsMidStage ==
    (call.op = "StartWithStage" /\ call.cancelled /\ call.pc = "action")
        ~> (call.pc = "returned")

\* C39: after any PutEntity, the table and the index agree: an entity is
\* readable by GetEntity exactly when FindByBlockNum finds it for every block
\* of its range.
C39_TableAndIndexAgree ==
    call.op = "EntityStore" =>
        \A id \in EntityIds : \A b \in BlockNumRange(id) :
            GetEntity(call.table, id).found
                <=> FindByBlockNum(call.table, call.index, b) = [found |-> TRUE, id |-> id]

\* C40: br.maxScheduledBlock never decreases.
C40_MaxScheduledMonotone ==
    [][call.op = "BlockRetire" => call'.maxScheduledBlock >= call.maxScheduledBlock]_vars
====
